---- MODULE Spec2Model ----
(***************************************************************************)
(* snapback: the retention engine of package config (Policy.Less, sortExp, *)
(* Parse, findPolicy, FindExpired, Policy.apply) and the prune cycle of    *)
(* the command-line tool that drives it (pruneArchives).                   *)
(*                                                                         *)
(* Time.  A time.Time is the number of clock ticks since the Unix epoch    *)
(* and a time.Duration a number of ticks; timeSecond ticks make one        *)
(* second.  An Interval is a number of seconds, as in the source.  The     *)
(* creation time of an archive is a whole number of seconds, the effective *)
(* now of a prune need not be.                                             *)
(***************************************************************************)
EXTENDS Integers, Sequences, FiniteSets, TLC

\* ------------------------------------------------------------------------
\* Bounds of the explored universe.
MaxSec == 4        \* archives are created at seconds 0..MaxSec
MaxArchives == 3   \* the archiver holds at most this many archives
MaxLatest == 2     \* rules keep 0..MaxLatest latest archives
MaxMinute == 1     \* the wall clock reads minutes 0..MaxMinute
MaxTick == 5       \* or, for the auto-prune sentinel, ticks 0..MaxTick

\* ------------------------------------------------------------------------
\* Units.
timeSecond == 1 + 1          \* time.Second, in ticks (the source counts ns)
timeZero == 0                \* config.go: the Unix epoch
Second == 1                  \* interval.go: Interval unit
Hour == 3600 * Second
Day == 24 * Hour
\* policy.go: const forever = 1<<63 - 1.  The model's integers are 32 bits
\* wide, so forever is the largest of those; every interval of the model
\* is far below it and Max - Min never overflows for Min >= 0.
forever == 2147483646 + 1

\* Go's integer division truncates toward zero.
quo(a, b) == IF a >= 0 THEN a \div b ELSE -((-a) \div b)

\* interval.go: durationInterval(d) = Interval(d / time.Second)
durationInterval(d) == quo(d, timeSecond)

\* ------------------------------------------------------------------------
\* Sequence helpers.
Range(s) == {s[i] : i \in DOMAIN s}
Last(s) == s[Len(s)]
Front(s) == SubSeq(s, 1, Len(s) - 1)

RECURSIVE Concat(_)
Concat(ss) == IF ss = <<>> THEN <<>> ELSE Head(ss) \o Concat(Tail(ss))

\* ------------------------------------------------------------------------
\* Sampling (interval.go).  A nil *Sampling is the record with nil = TRUE.
NilSample == [nil |-> TRUE, N |-> 0, Period |-> 0]
Sampling(n, period) == [nil |-> FALSE, N |-> n, Period |-> period]
SampleNone == Sampling(0, 0)     \* parseFrom("none")
SampleAll == Sampling(1, 0)      \* parseFrom("all")

\* Policy (policy.go): a rule.
Rule(min, max, latest, sample) ==
  [Min |-> min, Max |-> max, Latest |-> latest, Sample |-> sample]

\* A variant of Less that breaks a tie of widths by the earlier start.
LessEarlierStart(p, q) ==
  LET u == p.Max - p.Min
      v == q.Max - q.Min
  IN IF u = v THEN p.Min < q.Min ELSE u < v

\* policy.go: Policy.Less
Less(p, q) ==
  LET u == p.Max - p.Min
      v == q.Max - q.Min
  IN IF u = v THEN p.Min > q.Min ELSE u < v

\* sort.Slice on a short slice is an insertion sort: each element moves left
\* while it is Less than its left neighbour.
RECURSIVE insertLeft(_, _)
insertLeft(prefix, e) ==
  IF prefix = <<>> \/ ~Less(e, Last(prefix))
  THEN Append(prefix, e)
  ELSE Append(insertLeft(Front(prefix), e), Last(prefix))

RECURSIVE sortSlice(_)
sortSlice(es) ==
  IF es = <<>> THEN <<>> ELSE insertLeft(sortSlice(Front(es)), Last(es))

\* A variant of sortExp that sorts before it replaces Max = 0.
sortExpSortsFirst(es) ==
  LET sorted == sortSlice(es)
  IN [i \in DOMAIN sorted |->
        IF sorted[i].Max = 0 THEN [sorted[i] EXCEPT !.Max = forever]
        ELSE sorted[i]]

\* policy.go: sortExp
sortExp(es) ==
  sortSlice([i \in DOMAIN es |->
               IF es[i].Max = 0 THEN [es[i] EXCEPT !.Max = forever] ELSE es[i]])

\* ------------------------------------------------------------------------
\* Config (config.go).  A document is the decoded YAML before validation:
\* [Backup: sequence of [Name, Policy, Expiration, WorkDir, Include,
\* Exclude, GlobIncludes], Expiration, Policy map, WorkDir, ListCache: the
\* path of the list cache, AutoPrune: [Timestamp: the path of the sentinel,
\* Interval]]; an empty path means the setting is absent.  WorkDir, Include
\* and Exclude are file paths and patterns, which the program takes apart:
\* they are sequences of characters.
NoAutoPrune == [Timestamp |-> "", Interval |-> 0]

\* A variant of decodedCap for a decoder that leaves room for two more
\* elements in every list.
decodedCapWithRoom(l) == l + 2

\* config.go: Parse decodes the file with yaml.v3, whose decoder makes the
\* slice of a sequence of l elements with reflect.MakeSlice(type, l, l):
\* the capacity of a decoded list is its length.
decodedCap(l) == l

\* The elements of the array of a decoded list of l elements that lie past
\* its length; they hold nil.
spareOf(l) == [k \in 1..(decodedCap(l) - l) |-> [nil |-> TRUE]]

\* Spare holds those elements for the lists that backups share: the
\* default list and the named policies.
Document(backup, expiration, policy, listCache, autoPrune) ==
  [Backup |-> backup, Expiration |-> expiration, Policy |-> policy,
   WorkDir |-> <<>>, ListCache |-> listCache, AutoPrune |-> autoPrune,
   Spare |-> [Expiration |-> spareOf(Len(expiration)),
              Policy |-> [n \in DOMAIN policy |-> spareOf(Len(policy[n]))]]]

BackupNames(c) == {c.Backup[i].Name : i \in DOMAIN c.Backup}

\* A variant of the validation loop that does not look for repeated names.
RECURSIVE parseBackupsAllowsRepeats(_, _, _)
parseBackupsAllowsRepeats(doc, i, seen) ==
  IF i > Len(doc.Backup) THEN ""
  ELSE LET b == doc.Backup[i] IN
       IF b.Name = "" THEN "empty backup name"
       ELSE IF b.Policy \notin DOMAIN doc.Policy /\ b.Policy # ""
            THEN "undefined policy"
       ELSE parseBackupsAllowsRepeats(doc, i + 1, seen \cup {b.Name})

\* config.go: the validation loop of Parse; "" when the document is valid.
RECURSIVE parseBackups(_, _, _)
parseBackups(doc, i, seen) ==
  IF i > Len(doc.Backup) THEN ""
  ELSE LET b == doc.Backup[i] IN
       IF b.Name = "" THEN "empty backup name"
       ELSE IF b.Name \in seen THEN "repeated backup name"
       ELSE IF b.Policy \notin DOMAIN doc.Policy /\ b.Policy # ""
            THEN "undefined policy"
       ELSE parseBackups(doc, i + 1, seen \cup {b.Name})

ParseError(doc) == parseBackups(doc, 1, {})

\* config.go: Parse, for a document it accepts.  The paths of the model
\* name no environment variable, so expand leaves them as they are, and no
\* document sets glob-includes, so Include stays as decoded.
Parse(doc) ==
  [Backup |-> [i \in DOMAIN doc.Backup |->
                 [doc.Backup[i] EXCEPT !.Expiration = sortExp(@)]],
   Expiration |-> sortExp(doc.Expiration),
   Policy |-> [n \in DOMAIN doc.Policy |-> sortExp(doc.Policy[n])],
   WorkDir |-> doc.WorkDir,
   ListCache |-> doc.ListCache,
   AutoPrune |-> doc.AutoPrune,
   Spare |-> doc.Spare]

\* A variant of findPolicy without the case for "default": the name is
\* looked up in the map of named policies like any other.
findPolicyNoDefaultCase(c, b) ==
  CASE b.Policy = "none" -> b.Expiration
    [] b.Policy = "" ->
         IF Len(b.Expiration) = 0 THEN c.Expiration ELSE b.Expiration
    [] OTHER ->
         (IF b.Policy \in DOMAIN c.Policy THEN c.Policy[b.Policy] ELSE <<>>)
           \o b.Expiration

\* config.go: findPolicy.  Indexing the map with a missing key yields nil.
findPolicy(c, b) ==
  CASE b.Policy = "none" -> b.Expiration
    [] b.Policy = "" ->
         IF Len(b.Expiration) = 0 THEN c.Expiration ELSE b.Expiration
    [] b.Policy = "default" -> c.Expiration \o b.Expiration
    [] OTHER ->
         (IF b.Policy \in DOMAIN c.Policy THEN c.Policy[b.Policy] ELSE <<>>)
           \o b.Expiration

\* The slice that append(list, more...) returns, when list is a shared list
\* of the Config with the elements spare past its length: the list itself
\* when more is empty, the array of the list when more fits into spare, and
\* a new array otherwise.  A view names the array (shared: "default", the
\* name of a policy, or "" for an array of its own), the length, and the
\* elements when the array is its own.
appendView(shared, list, spare, more) ==
  IF Len(more) <= Len(spare)
  THEN [shared |-> shared, len |-> Len(list) + Len(more), own |-> <<>>]
  ELSE [shared |-> "", len |-> Len(list) + Len(more), own |-> list \o more]

\* What append(list, more...) leaves in the elements past the length of
\* list: more, when it fits.
appendSpare(spare, more) ==
  IF Len(more) <= Len(spare)
  THEN [k \in DOMAIN spare |-> IF k <= Len(more) THEN more[k] ELSE spare[k]]
  ELSE spare

\* config.go: findPolicy, the slice it returns as a view.
findPolicyView(c, b) ==
  CASE b.Policy = "none" -> appendView("", <<>>, <<>>, b.Expiration)
    [] b.Policy = "" ->
         IF Len(b.Expiration) = 0
         THEN appendView("default", c.Expiration, c.Spare.Expiration, <<>>)
         ELSE appendView("", <<>>, <<>>, b.Expiration)
    [] b.Policy = "default" ->
         appendView("default", c.Expiration, c.Spare.Expiration,
                    b.Expiration)
    [] OTHER ->
         IF b.Policy \in DOMAIN c.Policy
         THEN appendView(b.Policy, c.Policy[b.Policy],
                         c.Spare.Policy[b.Policy], b.Expiration)
         ELSE appendView("", <<>>, <<>>, b.Expiration)

\* config.go: findPolicy, the Config it leaves: append writes where the
\* array of the shared list has room.
findPolicyStore(c, b) ==
  CASE b.Policy = "default" ->
         [c EXCEPT !.Spare.Expiration = appendSpare(@, b.Expiration)]
    [] b.Policy \notin {"none", "", "default"}
         /\ b.Policy \in DOMAIN c.Policy ->
         [c EXCEPT !.Spare.Policy[b.Policy] = appendSpare(@, b.Expiration)]
    [] OTHER -> c

\* The elements that a view shows in Config c.
readView(c, v) ==
  IF v.shared = "" THEN v.own
  ELSE IF v.shared = "default"
    THEN SubSeq(c.Expiration \o c.Spare.Expiration, 1, v.len)
  ELSE SubSeq(c.Policy[v.shared] \o c.Spare.Policy[v.shared], 1, v.len)

\* config.go: FindExpired, its calls of findPolicy from the i-th backup on:
\* the Config they leave and, for every backup, the view returned and the
\* elements it showed at the return.
RECURSIVE resolveFrom(_, _, _)
resolveFrom(c, i, resolved) ==
  IF i > Len(c.Backup) THEN [config |-> c, resolved |-> resolved]
  ELSE LET b == c.Backup[i]
           after == findPolicyStore(c, b)
           view == findPolicyView(c, b)
       IN resolveFrom(after, i + 1,
                      Append(resolved, [Name |-> b.Name, View |-> view,
                                        Value |-> readView(after, view)]))

\* ------------------------------------------------------------------------
\* Paths (path/filepath, strings), as sequences of characters.  The paths of
\* the model have no "." or ".." element and no doubled separator, so that
\* Clean has trailing separators to remove and nothing else.
IsAbs(p) == p # <<>> /\ p[1] = "/"
HasPrefix(s, pre) ==
  Len(pre) <= Len(s) /\ SubSeq(s, 1, Len(pre)) = pre
HasSuffix(s, suf) ==
  Len(suf) <= Len(s) /\ SubSeq(s, Len(s) - Len(suf) + 1, Len(s)) = suf
TrimPrefix(s, pre) ==
  IF HasPrefix(s, pre) THEN SubSeq(s, Len(pre) + 1, Len(s)) ELSE s

RECURSIVE Clean(_)
Clean(p) ==
  IF p = <<>> THEN <<".">>
  ELSE IF Len(p) > 1 /\ Last(p) = "/" THEN Clean(Front(p))
  ELSE p

\* filepath.Join skips empty elements and cleans the result.
Join(a, b) ==
  IF a = <<>> THEN (IF b = <<>> THEN <<>> ELSE Clean(b))
  ELSE IF b = <<>> THEN Clean(a)
  ELSE Clean(a \o <<"/">> \o b)

\* filepath.Rel for a target that is base or lies under it.
Rel(base, targ) ==
  LET b == Clean(base)
      t == Clean(targ)
  IN IF t = b THEN <<".">>
     ELSE IF b = <<".">> THEN t
     ELSE TrimPrefix(t, b \o <<"/">>)

\* filepath.Abs in the working directory cwd of the process.
Abs(cwd, p) == IF IsAbs(p) THEN Clean(p) ELSE Join(cwd, p)

\* An element of the regular expression that compile writes: "any" for
\* .*?, "seg" for [^/]*, "one" for [^/], "end" for (?:/|$), and "lit" for
\* the quoted character ch.
reElem(kind, ch) == [kind |-> kind, ch |-> ch]

\* example.yml (the text of match.go in it): the loop of compile, with star
\* set after a "*" that may begin a "**".  The patterns of the model have
\* no braces and no character classes.
RECURSIVE compileFrom(_, _)
compileFrom(pat, star) ==
  IF pat = <<>> THEN (IF star THEN <<reElem("seg", "")>> ELSE <<>>)
  ELSE LET ch == Head(pat) IN
       IF ch = "*" /\ star
       THEN <<reElem("any", "")>> \o compileFrom(Tail(pat), FALSE)
       ELSE IF ch = "*" THEN compileFrom(Tail(pat), TRUE)
       ELSE (IF star THEN <<reElem("seg", "")>> ELSE <<>>)
              \o <<IF ch = "?" THEN reElem("one", "") ELSE reElem("lit", ch)>>
              \o compileFrom(Tail(pat), FALSE)

\* example.yml: compile; the expression begins with "^".
compile(pat) == compileFrom(pat, FALSE) \o <<reElem("end", "")>>

\* regexp.MatchString for an expression that compile wrote: it matches at
\* the beginning of the text and need not reach its end.
RECURSIVE MatchString(_, _)
MatchString(re, s) ==
  IF re = <<>> THEN TRUE
  ELSE LET e == Head(re)
           from(k) == SubSeq(s, k + 1, Len(s))
       IN CASE e.kind = "any" ->
                 \E k \in 0..Len(s) : MatchString(Tail(re), from(k))
            [] e.kind = "seg" ->
                 \E k \in 0..Len(s) :
                   /\ \A i \in 1..k : s[i] # "/"
                   /\ MatchString(Tail(re), from(k))
            [] e.kind = "one" ->
                 s # <<>> /\ s[1] # "/" /\ MatchString(Tail(re), from(1))
            [] e.kind = "end" ->
                 \/ s = <<>> /\ MatchString(Tail(re), s)
                 \/ s # <<>> /\ s[1] = "/" /\ MatchString(Tail(re), from(1))
            [] OTHER ->
                 s # <<>> /\ s[1] = e.ch /\ MatchString(Tail(re), from(1))

\* example.yml: pathMatchesPattern.
pathMatchesPattern(path, pat) == MatchString(compile(pat), path)

\* example.yml: the path that containsPath compares, relative to where the
\* backup was created.
needleOf(b, wd, path) ==
  LET base == IF b.WorkDir = <<>> THEN wd ELSE b.WorkDir
  IN IF ~IsAbs(path) THEN Rel(base, Join(base, path))
     ELSE TrimPrefix(path, base \o <<"/">>)

\* example.yml: containsPath, the pair (rel, ok) it returns.
containsPath(b, wd, path) ==
  LET needle == needleOf(b, wd, path)
  IN [rel |-> needle,
      ok |-> /\ \A k \in DOMAIN b.Exclude :
                  ~pathMatchesPattern(needle, b.Exclude[k])
             /\ \E k \in DOMAIN b.Include :
                  \/ needle = b.Include[k]
                  \/ HasPrefix(needle, b.Include[k] \o <<"/">>)]

\* config.go: FindPath, as the sequence of [Relative, Backup].  No backup of
\* the model has Modify rules, so Relative is the path containsPath returns.
RECURSIVE findPathFrom(_, _, _)
findPathFrom(c, path, i) ==
  IF i > Len(c.Backup) THEN <<>>
  ELSE LET found == containsPath(c.Backup[i], c.WorkDir, path)
       IN (IF found.ok
           THEN <<[Relative |-> found.rel, Backup |-> c.Backup[i]]>>
           ELSE <<>>) \o findPathFrom(c, path, i + 1)

FindPath(c, path) == findPathFrom(c, path, 1)

\* snapback.go: isGlob; a backslash quotes the glob character after it.
RECURSIVE isGlobFrom(_, _)
isGlobFrom(s, qt) ==
  IF s = <<>> THEN FALSE
  ELSE IF Head(s) = "\\" THEN isGlobFrom(Tail(s), ~qt)
  ELSE IF Head(s) \in {"[", "*", "?"}
       THEN ~qt \/ isGlobFrom(Tail(s), FALSE)
  ELSE isGlobFrom(Tail(s), qt)

isGlob(s) == isGlobFrom(s, FALSE)

\* ------------------------------------------------------------------------
\* Archives (tarsnap.Archive): [Name, Base, Tag, Created], Name = Base + Tag.
\* A tag is kept as the fields that the layout ".20060102-1504" reads: the
\* literal before the date, the date and time fields, and what follows them.
Tag(lit, year, month, day, hour, minute, rest) ==
  [lit |-> lit, year |-> year, month |-> month, day |-> day,
   hour |-> hour, minute |-> minute, rest |-> rest]

Archive(base, tag, created) ==
  [Name |-> <<base, tag>>, Base |-> base, Tag |-> tag, Created |-> created]

isLeap(y) == (y % 4 = 0 /\ y % 100 # 0) \/ y % 400 = 0

daysIn(month, year) ==
  CASE month = 2 -> IF isLeap(year) THEN 29 ELSE 28
    [] month \in {4, 6, 9, 11} -> 30
    [] OTHER -> 31

\* config.go: time.Parse(".20060102-1504", a.Tag) returns no error.
parseTag(tag) ==
  /\ tag.lit = "."
  /\ tag.rest = ""
  /\ tag.month \in 1..12
  /\ tag.day \in 1..daysIn(tag.month, tag.year)
  /\ tag.hour \in 0..23
  /\ tag.minute \in 0..59

\* ------------------------------------------------------------------------
\* policy.go: Policy.apply, the sampling loop: walk from index i down to 1.
RECURSIVE sampleLoop(_, _, _, _)
sampleLoop(batch, i, base, ival) ==
  IF i < 1 THEN <<>>
  ELSE LET age == durationInterval(batch[i].Created - timeZero) IN
       IF age >= base
       THEN <<batch[i]>> \o sampleLoop(batch, i - 1, base, ival)
       ELSE sampleLoop(batch, i - 1, base - ival, ival)

\* Variants of apply, each with one slip; the checks of the claims must tell
\* them from apply.
\* The first branch returns the batch instead of nothing.
applyDropsRecent(p, batch) ==
  IF p.Latest >= Len(batch) THEN batch
  ELSE LET b == IF p.Latest > 0
                THEN SubSeq(batch, 1, Len(batch) - p.Latest)
                ELSE batch
       IN IF p.Sample.nil \/ p.Sample.N = 0 THEN b
          ELSE IF p.Sample.Period = 0 THEN <<>>
          ELSE LET ival == quo(p.Sample.Period, p.Sample.N)
                   last == durationInterval(Last(b).Created - timeZero)
                   base == ival * quo(last, ival)
               IN sampleLoop(b, Len(b) - 1, base, ival)

\* Latest protects the oldest archives instead of the most recent ones.
applyKeepsOldest(p, batch) ==
  IF p.Latest >= Len(batch) THEN <<>>
  ELSE LET b == IF p.Latest > 0
                THEN SubSeq(batch, p.Latest + 1, Len(batch))
                ELSE batch
       IN IF p.Sample.nil \/ p.Sample.N = 0 THEN b
          ELSE IF p.Sample.Period = 0 THEN <<>>
          ELSE LET ival == quo(p.Sample.Period, p.Sample.N)
                   last == durationInterval(Last(b).Created - timeZero)
                   base == ival * quo(last, ival)
               IN sampleLoop(b, Len(b) - 1, base, ival)

\* The test of the period comes before the test of the count.
applyPeriodFirst(p, batch) ==
  IF p.Latest >= Len(batch) THEN <<>>
  ELSE LET b == IF p.Latest > 0
                THEN SubSeq(batch, 1, Len(batch) - p.Latest)
                ELSE batch
       IN IF ~p.Sample.nil /\ p.Sample.Period = 0 THEN <<>>
          ELSE IF p.Sample.nil \/ p.Sample.N = 0 THEN b
          ELSE LET ival == quo(p.Sample.Period, p.Sample.N)
                   last == durationInterval(Last(b).Created - timeZero)
                   base == ival * quo(last, ival)
               IN sampleLoop(b, Len(b) - 1, base, ival)

\* The buckets are anchored at the most recent archive, not at the epoch.
applyUnanchored(p, batch) ==
  IF p.Latest >= Len(batch) THEN <<>>
  ELSE LET b == IF p.Latest > 0
                THEN SubSeq(batch, 1, Len(batch) - p.Latest)
                ELSE batch
       IN IF p.Sample.nil \/ p.Sample.N = 0 THEN b
          ELSE IF p.Sample.Period = 0 THEN <<>>
          ELSE LET ival == quo(p.Sample.Period, p.Sample.N)
                   last == durationInterval(Last(b).Created - timeZero)
                   base == last
               IN sampleLoop(b, Len(b) - 1, base, ival)

\* policy.go: Policy.apply, the expired archives of a batch.
apply(p, batch) ==
  IF p.Latest >= Len(batch) THEN <<>>
  ELSE LET b == IF p.Latest > 0
                THEN SubSeq(batch, 1, Len(batch) - p.Latest)
                ELSE batch
       IN IF p.Sample.nil \/ p.Sample.N = 0 THEN b
          ELSE IF p.Sample.Period = 0 THEN <<>>
          ELSE LET ival == quo(p.Sample.Period, p.Sample.N)
                   last == durationInterval(Last(b).Created - timeZero)
                   base == ival * quo(last, ival)
               IN sampleLoop(b, Len(b) - 1, base, ival)

\* A variant of sets that does not look at the tag.
setsIgnoresTag(arch, base) ==
  SelectSeq(arch, LAMBDA a : a.Base = base)

\* config.go: FindExpired, the partition: the archives of one base whose tag
\* parses, in input order.
sets(arch, base) ==
  SelectSeq(arch, LAMBDA a : parseTag(a.Tag) /\ a.Base = base)

\* config.go: FindExpired, the age of an archive.
ageOf(now, a) == durationInterval(now - a.Created)

\* config.go: FindExpired, the window test of the inner loop.
spans(rule, age) == rule.Min <= age /\ (rule.Max = 0 \/ rule.Max >= age)

\* config.go: FindExpired, the inner loop: the index in exp of the first rule
\* that spans age, 0 when there is none.  A rule is a pointer in the source
\* and no pointer occurs twice in exp, so its index identifies it.
firstRule(exp, age) ==
  IF \E i \in DOMAIN exp : spans(exp[i], age)
  THEN CHOOSE i \in DOMAIN exp :
         spans(exp[i], age) /\ \A j \in 1..(i - 1) : ~spans(exp[j], age)
  ELSE 0

\* config.go: FindExpired, rules[rule]: the batch recorded for rule r.
rulesBatch(exp, set, now, r) ==
  SelectSeq(set, LAMBDA a : firstRule(exp, ageOf(now, a)) = r)

\* config.go: FindExpired, one iteration of the loop over c.Backup.  The
\* source ranges over a map, so the order of the rules varies from run to
\* run; the caller uses the result as a set of names.
expiredOf(c, b, arch, now) ==
  LET exp == findPolicy(c, b)
      set == sets(arch, b.Name)
  IN Concat([r \in DOMAIN exp |->
               LET batch == rulesBatch(exp, set, now, r)
               IN IF batch = <<>> THEN <<>> ELSE apply(exp[r], batch)])

\* config.go: FindExpired
FindExpired(c, arch, now) ==
  Concat([i \in DOMAIN c.Backup |-> expiredOf(c, c.Backup[i], arch, now)])

\* policy.go: Policy.apply reaches last / ival with ival = 0, where the Go
\* runtime panics (integer divide by zero).
applyPanics(p, batch) ==
  /\ p.Latest < Len(batch)
  /\ ~(p.Sample.nil \/ p.Sample.N = 0)
  /\ p.Sample.Period # 0
  /\ quo(p.Sample.Period, p.Sample.N) = 0

\* config.go: FindExpired calls apply on a batch where it panics.  Every
\* batch that is not empty is applied, in the order of the map rules.
FindExpiredPanics(c, arch, now) ==
  \E i \in DOMAIN c.Backup :
    LET exp == findPolicy(c, c.Backup[i])
        set == sets(arch, c.Backup[i].Name)
    IN \E r \in DOMAIN exp :
         LET batch == rulesBatch(exp, set, now, r)
         IN batch # <<>> /\ applyPanics(exp[r], batch)

\* ------------------------------------------------------------------------
\* The archives the archiver may hold.  The adapter lists them ordered by
\* creation time, then by name.
goodTag(k) == Tag(".", 1970, 1, 1, 0, k, "")
BadTags == {Tag(".", 1970, 13, 1, 0, 0, ""), Tag("_", 1970, 1, 1, 0, 0, "")}

ArchiveUniverse ==
  {Archive("alpha", goodTag(s), s * timeSecond) : s \in 0..MaxSec}
    \cup {Archive("beta", goodTag(1), 1 * timeSecond)}
    \cup {Archive("alpha", t, 2 * timeSecond) : t \in BadTags}

baseOrd(base) == CASE base = "alpha" -> 1 [] base = "beta" -> 2 [] OTHER -> 3
litOrd(lit) == CASE lit = "." -> 1 [] OTHER -> 2
tagKey(t) == <<litOrd(t.lit), t.year, t.month, t.day, t.hour, t.minute>>

RECURSIVE seqLess(_, _)
seqLess(x, y) ==
  IF x = <<>> THEN y # <<>>
  ELSE IF y = <<>> THEN FALSE
  ELSE IF Head(x) = Head(y) THEN seqLess(Tail(x), Tail(y))
  ELSE Head(x) < Head(y)

nameLess(n, m) ==
  IF n[1] = m[1] THEN seqLess(tagKey(n[2]), tagKey(m[2]))
  ELSE baseOrd(n[1]) < baseOrd(m[1])

\* tarsnap.Archives.Less: by creation time, then by name.
archLess(a, b) ==
  IF a.Created = b.Created THEN nameLess(a.Name, b.Name)
  ELSE a.Created < b.Created

\* The effective now of a prune: the wall clock or the -now flag.
Nows == 0..(timeSecond * (MaxSec + 1) - 1)

\* ------------------------------------------------------------------------
\* The configuration documents of the explored universe.
Samples == {NilSample, SampleNone, SampleAll, Sampling(1, 2), Sampling(2, 2)}

BackupDoc(name, policy, expiration) ==
  [Name |-> name, Policy |-> policy, Expiration |-> expiration,
   WorkDir |-> <<>>, Include |-> <<>>, Exclude |-> <<>>,
   GlobIncludes |-> FALSE]

\* A backup that includes one path.
Including(b, path) == [b EXCEPT !.Include = <<path>>]

\* One backup set with one rule that spans all time.
SingleRuleDocs ==
  {Document(<<BackupDoc("alpha", "", <<Rule(0, 0, l, s)>>)>>, <<>>, <<>>,
            "", NoAutoPrune) : l \in 0..MaxLatest, s \in Samples}

PolicyNames == {"", "none", "default", "named"}
ExplicitLists ==
  {<<>>,
   <<Rule(1, 3, 0, NilSample)>>,
   <<Rule(0, 3, 1, Sampling(1, 2)), Rule(1, 2, 0, NilSample)>>}
DefaultLists == {<<>>, <<Rule(0, 0, 1, NilSample)>>}
NamedPolicies ==
  [x \in {"named", "default", "none"} |->
     CASE x = "named" -> <<Rule(2, 0, 0, SampleAll), Rule(0, 1, 0, NilSample)>>
       [] x = "default" -> <<Rule(0, 0, 0, NilSample)>>
       [] OTHER -> <<>>]

\* Two backup sets; alpha composes its rules from a policy and its own list.
ComposedDocs ==
  {Document(<<BackupDoc("alpha", p, e), BackupDoc("beta", "", <<>>)>>,
            d, NamedPolicies, "", NoAutoPrune) :
      p \in PolicyNames, e \in ExplicitLists, d \in DefaultLists}

Documents == SingleRuleDocs \cup ComposedDocs

\* ------------------------------------------------------------------------
\* The archiver behind the adapter (package tarsnap), as the program sees
\* it: List() returns the stored archives in the order of archLess, and
\* CacheTag() returns a token that differs exactly when the stored archives
\* differ.

\* sort.Sort(tarsnap.Archives(as)), by insertion.
RECURSIVE insertArchive(_, _)
insertArchive(as, a) ==
  IF as = <<>> \/ ~archLess(a, Last(as)) THEN Append(as, a)
  ELSE Append(insertArchive(SubSeq(as, 1, Len(as) - 1), a), Last(as))

RECURSIVE sortArchives(_)
sortArchives(as) ==
  IF as = <<>> THEN <<>>
  ELSE insertArchive(sortArchives(SubSeq(as, 1, Len(as) - 1)), Last(as))

CacheTag(stored) == {stored[k].Name : k \in DOMAIN stored}

\* A file that does not exist; a nil *ListCache; a cache file that
\* json.Unmarshal rejects.
NoFile == [nil |-> TRUE]
NoCache == [nil |-> TRUE]
BadFile == [corrupt |-> TRUE]

ListCache(tag, as) == [Tag |-> tag, Archives |-> as]

\* What the command line and the environment give a run: the -dry-run
\* flag, the wall clock, and which calls fail: the archiver's Delete, the
\* write of the list cache file, and (Failing) the opening of the auto-prune
\* sentinel and the archiver's List.
Input(dry, wall, delErr, saveErr) ==
  [dry |-> dry, wall |-> wall, delErr |-> delErr, saveErr |-> saveErr,
   ensureErr |-> FALSE, listErr |-> FALSE]

Failing(in, ensureErr, listErr) ==
  [in EXCEPT !.ensureErr = ensureErr, !.listErr = listErr]

\* What a run was given and what it did, for the commands of main:
\* Cmd and Args, the command and its non-flag arguments; In, its Input; of
\* createBackups, Attempts, its Create calls in order, Created, the names
\* it returns, and Err, whether it returns an error; Asked, whether main
\* called ShouldAutoPrune, Stamp, the sentinel at that call, and Due, the
\* answer; Deletes, the Delete calls of pruneArchives in order; Cwd, the
\* working directory of the process; Found, what FindPath returned;
\* Extracts, the Extract calls of restoreFiles in order; Resolved, what
\* the findPolicy calls of FindExpired returned.
NoReport ==
  [Cmd |-> "", Args |-> <<>>, In |-> Input(FALSE, 0, FALSE, FALSE),
   Attempts |-> <<>>, Created |-> <<>>, Err |-> FALSE,
   Asked |-> FALSE, Stamp |-> NoFile, Due |-> FALSE,
   Deletes |-> <<>>, Cwd |-> <<>>, Found |-> <<>>, Extracts |-> <<>>,
   Resolved |-> <<>>]

Command(cmd, args, in) ==
  [NoReport EXCEPT !.Cmd = cmd, !.Args = args, !.In = in]

\* ------------------------------------------------------------------------
VARIABLES
  doc,        \* the decoded configuration file
  config,     \* the *Config that Parse returned, NoConfig for nil
  archives,   \* what the archiver holds, as its List() returns it
  cacheFile,  \* the file at Config.ListCache: a ListCache or NoFile
  sentinel,   \* the file at AutoPrune.Timestamp: [ModTime] or NoFile
  pc,         \* "start": the configuration is not loaded; "idle": no
              \* command runs; "pruned": pruneArchives has returned;
              \* "created", "restored": main has returned from that
              \* command; "found": FindPath has returned; "fatal": the run has ended in log.Fatalf;
              \* "panic": it has ended in a run-time panic
  now,        \* pruneArchives, restoreFiles: the effective now
  chosen,     \* pruneArchives: the archives handed to FindExpired
  match,      \* pruneArchives: expired, what FindExpired returned
  dryRun,     \* the -dry-run flag of the command
  deleted,    \* pruneArchives: the names of its Delete call, {} without one
  extracted,  \* restoreFiles: the names of its Extract calls
  cachedList, \* Config.cachedList: a ListCache or NoCache
  report,     \* what the command of this run was given and did, a Report
  lists       \* the List() calls of this run on the Config, in order: the
              \* tag of the archiver when called, the path taken, the result

vars ==
  <<doc, config, archives, cacheFile, sentinel, pc, now, chosen, match, dryRun,
    deleted, extracted, cachedList, report, lists>>

\* config.go: Parse returns nil with an error.
NoConfig == [nil |-> TRUE]

\* What a run works on and leaves behind, as one record.
Here ==
  [archives |-> archives, cacheFile |-> cacheFile, sentinel |-> sentinel,
   pc |-> pc, now |-> now, chosen |-> chosen, match |-> match,
   deleted |-> deleted, extracted |-> extracted, cachedList |-> cachedList,
   report |-> report, lists |-> lists, config |-> config]

Becomes(s) ==
  /\ archives' = s.archives
  /\ cacheFile' = s.cacheFile
  /\ sentinel' = s.sentinel
  /\ pc' = s.pc
  /\ now' = s.now
  /\ chosen' = s.chosen
  /\ match' = s.match
  /\ deleted' = s.deleted
  /\ extracted' = s.extracted
  /\ cachedList' = s.cachedList
  /\ report' = s.report
  /\ lists' = s.lists
  /\ config' = s.config

\* No command runs, on a Config that was just loaded.
Fresh ==
  /\ now = 0
  /\ chosen = <<>>
  /\ match = <<>>
  /\ dryRun = FALSE
  /\ deleted = {}
  /\ extracted = {}
  /\ cachedList = NoCache
  /\ report = NoReport
  /\ lists = <<>>

\* The state after main has loaded a configuration file that Parse accepts.
InitWith(docs) ==
  /\ doc \in {x \in docs : ParseError(x) = ""}
  /\ config = Parse(doc)
  /\ archives = <<>>
  /\ cacheFile = NoFile
  /\ sentinel = NoFile
  /\ pc = "idle"
  /\ Fresh

Init == InitWith(Documents)

\* The archiver stores one more archive, created after those it holds
\* (written by another client of the same account, hence with any base and
\* tag); List() keeps the order.
Arrive(a) ==
  /\ pc = "idle"
  /\ Len(archives) < MaxArchives
  /\ \A i \in DOMAIN archives : archLess(archives[i], a)
  /\ archives' = Append(archives, a)
  /\ UNCHANGED <<doc, config, cacheFile, sentinel, pc, now, chosen, match,
                 dryRun, deleted, extracted, cachedList, report, lists>>

\* A variant of List that, on a hit in the cache file, returns a sorted copy
\* and installs the list as the file holds it.
ListSortsACopy(c, s, in) ==
  LET ctag == CacheTag(s.archives)
      call(path, as, memory, file) ==
        [s EXCEPT
           !.cachedList = memory,
           !.cacheFile = file,
           !.lists = Append(@, [Tag |-> ctag, Path |-> path, Archives |-> as,
                                Memory |-> s.cachedList, File |-> s.cacheFile,
                                Installed |-> memory, Saved |-> file])]
      failed == call("error", <<>>, s.cachedList, s.cacheFile)
  IN IF c.ListCache = ""
       THEN IF in.listErr THEN failed
            ELSE call("direct", s.archives, s.cachedList, s.cacheFile)
     ELSE IF s.cachedList # NoCache /\ s.cachedList.Tag = ctag
       THEN call("memory", s.cachedList.Archives, s.cachedList, s.cacheFile)
     ELSE IF s.cacheFile \notin {NoFile, BadFile} /\ s.cacheFile.Tag = ctag
       THEN call("disk", sortArchives(s.cacheFile.Archives),
                 ListCache(ctag, s.cacheFile.Archives), s.cacheFile)
     ELSE IF in.listErr THEN failed
     ELSE LET cache == ListCache(ctag, s.archives)
          IN call("fetch", s.archives, cache,
                  IF in.saveErr THEN s.cacheFile ELSE cache)

\* A variant of List that trusts the order of the cache file.
ListKeepsFileOrder(c, s, in) ==
  LET ctag == CacheTag(s.archives)
      call(path, as, memory, file) ==
        [s EXCEPT
           !.cachedList = memory,
           !.cacheFile = file,
           !.lists = Append(@, [Tag |-> ctag, Path |-> path, Archives |-> as,
                                Memory |-> s.cachedList, File |-> s.cacheFile,
                                Installed |-> memory, Saved |-> file])]
      failed == call("error", <<>>, s.cachedList, s.cacheFile)
  IN IF c.ListCache = ""
       THEN IF in.listErr THEN failed
            ELSE call("direct", s.archives, s.cachedList, s.cacheFile)
     ELSE IF s.cachedList # NoCache /\ s.cachedList.Tag = ctag
       THEN call("memory", s.cachedList.Archives, s.cachedList, s.cacheFile)
     ELSE IF s.cacheFile \notin {NoFile, BadFile} /\ s.cacheFile.Tag = ctag
       THEN call("disk", s.cacheFile.Archives,
                 ListCache(ctag, s.cacheFile.Archives), s.cacheFile)
     ELSE IF in.listErr THEN failed
     ELSE LET cache == ListCache(ctag, s.archives)
          IN call("fetch", s.archives, cache,
                  IF in.saveErr THEN s.cacheFile ELSE cache)

\* A variant of List that returns the in-memory cache whatever its tag.
ListTrustsMemory(c, s, in) ==
  LET ctag == CacheTag(s.archives)
      call(path, as, memory, file) ==
        [s EXCEPT
           !.cachedList = memory,
           !.cacheFile = file,
           !.lists = Append(@, [Tag |-> ctag, Path |-> path, Archives |-> as,
                                Memory |-> s.cachedList, File |-> s.cacheFile,
                                Installed |-> memory, Saved |-> file])]
      failed == call("error", <<>>, s.cachedList, s.cacheFile)
  IN IF c.ListCache = ""
       THEN IF in.listErr THEN failed
            ELSE call("direct", s.archives, s.cachedList, s.cacheFile)
     ELSE IF s.cachedList # NoCache
       THEN call("memory", s.cachedList.Archives, s.cachedList, s.cacheFile)
     ELSE IF s.cacheFile \notin {NoFile, BadFile} /\ s.cacheFile.Tag = ctag
       THEN LET as == sortArchives(s.cacheFile.Archives)
            IN call("disk", as, ListCache(ctag, as), s.cacheFile)
     ELSE IF in.listErr THEN failed
     ELSE LET cache == ListCache(ctag, s.archives)
          IN call("fetch", s.archives, cache,
                  IF in.saveErr THEN s.cacheFile ELSE cache)

\* A variant of List that installs in memory only a list that it has
\* saved.
ListInstallsWhatItSaved(c, s, in) ==
  LET ctag == CacheTag(s.archives)
      call(path, as, memory, file) ==
        [s EXCEPT
           !.cachedList = memory,
           !.cacheFile = file,
           !.lists = Append(@, [Tag |-> ctag, Path |-> path, Archives |-> as,
                                Memory |-> s.cachedList, File |-> s.cacheFile,
                                Installed |-> memory, Saved |-> file])]
      failed == call("error", <<>>, s.cachedList, s.cacheFile)
  IN IF c.ListCache = ""
       THEN IF in.listErr THEN failed
            ELSE call("direct", s.archives, s.cachedList, s.cacheFile)
     ELSE IF s.cachedList # NoCache /\ s.cachedList.Tag = ctag
       THEN call("memory", s.cachedList.Archives, s.cachedList, s.cacheFile)
     ELSE IF s.cacheFile \notin {NoFile, BadFile} /\ s.cacheFile.Tag = ctag
       THEN LET as == sortArchives(s.cacheFile.Archives)
            IN call("disk", as, ListCache(ctag, as), s.cacheFile)
     ELSE IF in.listErr THEN failed
     ELSE LET cache == ListCache(ctag, s.archives)
          IN IF in.saveErr
             THEN call("fetch", s.archives, s.cachedList, s.cacheFile)
             ELSE call("fetch", s.archives, cache, cache)

\* config.go: Config.List in state s.  Without a ListCache path it returns
\* the archiver's list.  Otherwise it returns the in-memory cache when that
\* carries the archiver's tag, else the list of the cache file, sorted,
\* when the file can be decoded and carries the tag, else the archiver's
\* list, which it saves (SaveTo fails on saveErr, which is logged) and
\* installs.  The archiver's List fails on listErr, and then Config.List
\* returns nil and the error.  Every call adds an entry to lists: Tag, what
\* CacheTag returned; Path, the way taken; Archives, the result; Memory and
\* File, the in-memory cache and the cache file at the call; Installed and
\* Saved, the two at the return.
List(c, s, in) ==
  LET ctag == CacheTag(s.archives)
      call(path, as, memory, file) ==
        [s EXCEPT
           !.cachedList = memory,
           !.cacheFile = file,
           !.lists = Append(@, [Tag |-> ctag, Path |-> path, Archives |-> as,
                                Memory |-> s.cachedList, File |-> s.cacheFile,
                                Installed |-> memory, Saved |-> file])]
      failed == call("error", <<>>, s.cachedList, s.cacheFile)
  IN IF c.ListCache = ""
       THEN IF in.listErr THEN failed
            ELSE call("direct", s.archives, s.cachedList, s.cacheFile)
     ELSE IF s.cachedList # NoCache /\ s.cachedList.Tag = ctag
       THEN call("memory", s.cachedList.Archives, s.cachedList, s.cacheFile)
     ELSE IF s.cacheFile \notin {NoFile, BadFile} /\ s.cacheFile.Tag = ctag
       THEN LET as == sortArchives(s.cacheFile.Archives)
            IN call("disk", as, ListCache(ctag, as), s.cacheFile)
     ELSE IF in.listErr THEN failed
     ELSE LET cache == ListCache(ctag, s.archives)
          IN call("fetch", s.archives, cache,
                  IF in.saveErr THEN s.cacheFile ELSE cache)

listed(s) == s.lists[Len(s.lists)].Archives
listFailed(s) == s.lists[Len(s.lists)].Path = "error"

\* config.go: ensurePruneSentinel opens the file with O_CREATE: a missing
\* file is created, with the wall clock as its modification time.  When
\* the directory or the file cannot be opened (ensureErr) nothing changes.
ensurePruneSentinel(stamp, wall) ==
  IF stamp = NoFile THEN [ModTime |-> wall] ELSE stamp

\* config.go: ShouldAutoPrune, the sentinel it leaves and its answer.
ShouldAutoPruneFile(c, stamp, in) ==
  IF c.AutoPrune.Timestamp = "" \/ in.ensureErr THEN stamp
  ELSE ensurePruneSentinel(stamp, in.wall)

\* A variant that asks for more than Interval seconds.
ShouldAutoPruneStrict(c, stamp, in) ==
  /\ c.AutoPrune.Timestamp # ""
  /\ ~in.ensureErr
  /\ durationInterval(in.wall - ensurePruneSentinel(stamp, in.wall).ModTime)
       > c.AutoPrune.Interval

ShouldAutoPrune(c, stamp, in) ==
  /\ c.AutoPrune.Timestamp # ""
  /\ ~in.ensureErr
  /\ durationInterval(in.wall - ensurePruneSentinel(stamp, in.wall).ModTime)
       >= c.AutoPrune.Interval

\* config.go: UpdatePruneTimestamp sets the modification time to the wall
\* clock; without a Timestamp path it does nothing, and when the sentinel
\* cannot be opened it returns the error, which pruneArchives logs.
UpdatePruneTimestamp(c, stamp, in) ==
  IF c.AutoPrune.Timestamp = "" \/ in.ensureErr THEN stamp
  ELSE [ModTime |-> in.wall]

\* A variant of pruneArchives that hands every listed archive to
\* FindExpired, whatever sets the arguments name.
pruneArchivesOfAllSets(c, s, as, t, args, in) ==
  LET sel == as
      expired == FindExpired(c, sel, t)
      prune == {expired[i].Name : i \in DOMAIN expired}
      calls == resolveFrom(c, 1, <<>>)
      found == [s EXCEPT !.now = t, !.chosen = sel,
                         !.config = calls.config,
                         !.report.Resolved = calls.resolved]
  IN IF FindExpiredPanics(c, sel, t) THEN [found EXCEPT !.pc = "panic"]
     ELSE IF prune = {} THEN [found EXCEPT !.match = expired, !.pc = "pruned"]
     ELSE IF ~in.dry /\ in.delErr
       THEN [found EXCEPT !.match = expired, !.deleted = prune,
                          !.report.Deletes = Append(@, prune), !.pc = "fatal"]
     ELSE LET gone ==
                IF in.dry THEN [found EXCEPT !.match = expired]
                ELSE [found EXCEPT
                        !.match = expired,
                        !.deleted = prune,
                        !.report.Deletes = Append(@, prune),
                        !.archives =
                           SelectSeq(@, LAMBDA a : a.Name \notin prune)]
              relisted == List(c, gone, in)
          IN [relisted EXCEPT
                !.sentinel = IF in.dry THEN @
                             ELSE UpdatePruneTimestamp(c, @, in),
                !.pc = "pruned"]

\* A variant of pruneArchives that updates the timestamp after a cycle
\* that found nothing to prune, too.
pruneArchivesStampsEveryCycle(c, s, as, t, args, in) ==
  LET sel == IF args # {}
             THEN SelectSeq(as, LAMBDA a : a.Base \in args)
             ELSE as
      expired == FindExpired(c, sel, t)
      prune == {expired[i].Name : i \in DOMAIN expired}
      calls == resolveFrom(c, 1, <<>>)
      found == [s EXCEPT !.now = t, !.chosen = sel,
                         !.config = calls.config,
                         !.report.Resolved = calls.resolved]
  IN IF FindExpiredPanics(c, sel, t) THEN [found EXCEPT !.pc = "panic"]
     ELSE IF prune = {}
       THEN [found EXCEPT !.match = expired,
                          !.sentinel = UpdatePruneTimestamp(c, @, in),
                          !.pc = "pruned"]
     ELSE IF ~in.dry /\ in.delErr
       THEN [found EXCEPT !.match = expired, !.deleted = prune,
                          !.report.Deletes = Append(@, prune), !.pc = "fatal"]
     ELSE LET gone ==
                IF in.dry THEN [found EXCEPT !.match = expired]
                ELSE [found EXCEPT
                        !.match = expired,
                        !.deleted = prune,
                        !.report.Deletes = Append(@, prune),
                        !.archives =
                           SelectSeq(@, LAMBDA a : a.Name \notin prune)]
              relisted == List(c, gone, in)
          IN [relisted EXCEPT
                !.sentinel = IF in.dry THEN @
                             ELSE UpdatePruneTimestamp(c, @, in),
                !.pc = "pruned"]

\* snapback.go: pruneArchives(cfg, as) in state s, with the set names args
\* of the command line, at the effective now t.  When the archiver fails
\* the Delete call it removes nothing and the run ends in log.Fatalf; when
\* FindExpired panics the run ends there.
pruneArchives(c, s, as, t, args, in) ==
  LET sel == IF args # {}
             THEN SelectSeq(as, LAMBDA a : a.Base \in args)
             ELSE as
      expired == FindExpired(c, sel, t)
      prune == {expired[i].Name : i \in DOMAIN expired}
      calls == resolveFrom(c, 1, <<>>)
      found == [s EXCEPT !.now = t, !.chosen = sel,
                         !.config = calls.config,
                         !.report.Resolved = calls.resolved]
  IN IF FindExpiredPanics(c, sel, t) THEN [found EXCEPT !.pc = "panic"]
     ELSE IF prune = {} THEN [found EXCEPT !.match = expired, !.pc = "pruned"]
     ELSE IF ~in.dry /\ in.delErr
       THEN [found EXCEPT !.match = expired, !.deleted = prune,
                          !.report.Deletes = Append(@, prune), !.pc = "fatal"]
     ELSE LET gone ==
                IF in.dry THEN [found EXCEPT !.match = expired]
                ELSE [found EXCEPT
                        !.match = expired,
                        !.deleted = prune,
                        !.report.Deletes = Append(@, prune),
                        !.archives =
                           SelectSeq(@, LAMBDA a : a.Name \notin prune)]
              relisted == List(c, gone, in)
          IN [relisted EXCEPT
                !.sentinel = IF in.dry THEN @
                             ELSE UpdatePruneTimestamp(c, @, in),
                !.pc = "pruned"]

\* The failures that in announces happen in the run that ends in r: the
\* Delete call is made, the list cache file is written, the archiver is
\* asked for its list.
Heeded(in, r) ==
  /\ in.delErr => r.deleted # {}
  /\ in.saveErr => \E k \in DOMAIN r.lists : r.lists[k].Path = "fetch"
  /\ in.listErr => \E k \in DOMAIN r.lists : r.lists[k].Path = "error"
  /\ in.ensureErr =>
       /\ config.AutoPrune.Timestamp # ""
       /\ r.report.Asked \/ (r.pc = "pruned" /\ r.deleted # {})

\* The wall clock does not run backwards: it is not before the time the
\* sentinel was last modified.
Clock(in) == sentinel # NoFile => sentinel.ModTime <= in.wall

\* snapback.go: main for -prune.  It ends the run when args names a set
\* that is not configured; otherwise it lists the archives and hands them
\* to pruneArchives.
Prune(t, args, in) ==
  /\ pc = "idle"
  /\ LET begun == [Here EXCEPT !.report = Command("prune", args, in)]
         s == List(config, begun, in)
         r == IF ~(args \subseteq BackupNames(config))
              THEN [begun EXCEPT !.pc = "fatal"]
              ELSE IF listFailed(s) THEN [s EXCEPT !.pc = "fatal"]
              ELSE pruneArchives(config, s, listed(s), t, args, in)
     IN Heeded(in, r) /\ Becomes(r)
  /\ Clock(in)
  /\ dryRun' = in.dry
  /\ UNCHANGED doc

\* snapback.go: the run of a command ends; its locals and the Config with
\* its in-memory cache are gone.
Exit ==
  /\ pc \in {"pruned", "created", "restored", "found", "fatal", "panic"}
  /\ config # NoConfig
  /\ pc' = "idle"
  /\ now' = 0
  /\ chosen' = <<>>
  /\ match' = <<>>
  /\ dryRun' = FALSE
  /\ deleted' = {}
  /\ extracted' = {}
  /\ cachedList' = NoCache
  /\ report' = NoReport
  /\ lists' = <<>>
  /\ UNCHANGED <<doc, config, archives, cacheFile, sentinel>>

\* The failures and clock readings of a run without list cache or sentinel.
PlainInputs == {Input(dry, 0, delErr, FALSE) : dry, delErr \in BOOLEAN}

Next ==
  \/ \E a \in ArchiveUniverse : Arrive(a)
  \/ \E t \in Nows, args \in SUBSET {"alpha", "beta"}, in \in PlainInputs :
       Prune(t, args, in)
  \/ Exit

Spec == Init /\ [][Next]_vars

\* ------------------------------------------------------------------------
\* The README's rule-selection example (README.md, "Rule Selection"): four
\* rules in days, written in any order in the file.
ReadmeRules ==
  <<Rule(1 * Day, 10 * Day, 0, NilSample), Rule(4 * Day, 8 * Day, 0, NilSample),
    Rule(5 * Day, 9 * Day, 0, NilSample), Rule(3 * Day, 6 * Day, 0, NilSample)>>

ReadmeDocs ==
  {Document(<<BackupDoc("alpha", "", [i \in 1..4 |-> ReadmeRules[f[i]]])>>,
            <<>>, <<>>, "", NoAutoPrune) :
      f \in {g \in [1..4 -> 1..4] : \A i, j \in 1..4 : g[i] = g[j] => i = j}}

ReadmeArchives ==
  {Archive("alpha", Tag(".", 1970, 1, 1 + d, 0, 0, ""), d * Day * timeSecond) :
     d \in 0..MaxSec}

ReadmeNows == {d * Day * timeSecond : d \in 0..(MaxSec + 6)}

InitReadme == InitWith(ReadmeDocs)

NextReadme ==
  \/ \E a \in ReadmeArchives : Arrive(a)
  \/ \E t \in ReadmeNows, args \in SUBSET {"alpha"}, in \in PlainInputs :
       Prune(t, args, in)
  \/ Exit

SpecReadme == InitReadme /\ [][NextReadme]_vars

\* ------------------------------------------------------------------------
\* Loading.  main reads the configuration file through loadConfig, which
\* returns what Parse returns, and ends the run when that is an error.
Load ==
  /\ pc = "start"
  /\ IF ParseError(doc) = ""
     THEN config' = Parse(doc) /\ pc' = "idle"
     ELSE config' = NoConfig /\ pc' = "fatal"
  /\ UNCHANGED <<doc, archives, cacheFile, sentinel, now, chosen, match,
                 dryRun, deleted, extracted, cachedList, report, lists>>

\* config.go: FindSet, the first backup called name; NoBackup for nil.
NoBackup == [nil |-> TRUE]
FindSet(c, name) ==
  IF \E i \in DOMAIN c.Backup : c.Backup[i].Name = name
  THEN c.Backup[CHOOSE i \in DOMAIN c.Backup :
                  /\ c.Backup[i].Name = name
                  /\ \A j \in 1..(i - 1) : c.Backup[j].Name # name]
  ELSE NoBackup

\* The configuration files of the loader's universe: backup names that are
\* empty, repeated or differ in case only; every kind of policy name, with
\* and without an entry in the map of named policies; rule lists that are
\* written unsorted, leave until open, tie in width, or sample more often
\* than once a second.
LoadLists ==
  {<<>>,
   <<Rule(0, 0, 1, NilSample), Rule(1, 3, 0, NilSample)>>,
   <<Rule(1, 3, 0, NilSample), Rule(2, 4, 0, NilSample),
     Rule(1, 0, 0, SampleNone)>>,
   <<Rule(1, 2, 0, NilSample), Rule(1, 2, 1, NilSample)>>,
   <<Rule(0, 0, 0, Sampling(2, 1))>>}
LoadDefaults == {<<>>, <<Rule(0, 0, 1, NilSample), Rule(1, 3, 2, NilSample)>>}
LoadPolicyNames == {"", "none", "default", "named", "other"}
LoadMaps ==
  {<<>>,
   [x \in {"named"} |-> <<Rule(0, 0, 2, NilSample), Rule(1, 1, 0, NilSample)>>],
   NamedPolicies}

LoadDocs ==
  {Document(<<BackupDoc(n, p, e)>>, d, m, "", NoAutoPrune) :
     n \in {"", "alpha"}, p \in LoadPolicyNames, e \in LoadLists,
     d \in LoadDefaults, m \in LoadMaps}
  \cup
  {Document(<<BackupDoc("alpha", "", <<>>), BackupDoc(n, p, <<>>)>>,
            d, m, "", NoAutoPrune) :
     n \in {"", "alpha", "Alpha", "beta"}, p \in {"", "other"},
     d \in LoadDefaults, m \in LoadMaps}

\* One backup with two rules of any small window, in both orders.
PairDocs ==
  {Document(<<BackupDoc("alpha", "", <<Rule(a, b, 0, NilSample),
                                       Rule(c, d, 1, NilSample)>>)>>,
            <<>>, <<>>, "", NoAutoPrune) :
     a \in 0..2, b \in 0..3, c \in 0..2, d \in 0..3}

LoadArchives ==
  {Archive("alpha", goodTag(s), s * timeSecond) : s \in 0..1}
LoadNows == {s * timeSecond : s \in 0..3}

InitLoad ==
  /\ doc \in LoadDocs \cup PairDocs
  /\ config = NoConfig
  /\ archives = <<>>
  /\ cacheFile = NoFile
  /\ sentinel = NoFile
  /\ pc = "start"
  /\ Fresh

NextLoad ==
  \/ Load
  \/ \E a \in LoadArchives : Arrive(a)
  \/ \E t \in LoadNows, args \in SUBSET {"alpha"}, in \in PlainInputs :
       Prune(t, args, in)
  \/ Exit

SpecLoad == InitLoad /\ [][NextLoad]_vars

\* ------------------------------------------------------------------------
\* Creating and restoring, with a list cache and an auto-prune sentinel.

\* snapback.go: createBackups, tag := "." + ts.Format("20060102-1504"), for
\* a wall clock within the first hour of the epoch.
tagAt(ts) == Tag(".", 1970, 1, 1, 0, durationInterval(ts) \div 60, "")

\* snapback.go: chooseBackups: every backup of the file without names, else
\* the backup of each name in the order given; an error for a repeated or
\* an unknown name.
chooseBackups(c, names) ==
  IF names = <<>> THEN [backups |-> c.Backup, err |-> FALSE]
  ELSE IF \E i \in DOMAIN names :
            \/ \E j \in 1..(i - 1) : names[j] = names[i]
            \/ FindSet(c, names[i]) = NoBackup
    THEN [backups |-> <<>>, err |-> TRUE]
  ELSE [backups |-> [i \in DOMAIN names |-> FindSet(c, names[i])],
        err |-> FALSE]

\* The archiver's Create of base + tag at ts: it fails for the bases of
\* fail and for a name it already holds; with DryRun it stores nothing.
createFails(s, base, ts, fail) ==
  base \in fail \/ <<base, tagAt(ts)>> \in CacheTag(s.archives)

\* A variant of the loop that gives up at the first Create that fails.
RECURSIVE createEachStopsAtFailure(_, _, _, _, _)
createEachStopsAtFailure(s, bs, ts, fail, dry) ==
  IF bs = <<>> THEN [state |-> s, nerrs |-> 0]
  ELSE LET base == Head(bs).Name
           name == <<base, tagAt(ts)>>
           failed == createFails(s, base, ts, fail)
           stored ==
             IF failed \/ dry THEN s
             ELSE [s EXCEPT !.archives =
                     insertArchive(@, Archive(base, tagAt(ts), ts))]
           called ==
             [stored EXCEPT
                !.report.Attempts = Append(@, [Name |-> name, Failed |-> failed]),
                !.report.Created = Append(@, name)]
           rest == createEachStopsAtFailure(called, Tail(bs), ts, fail, dry)
       IN IF failed THEN [state |-> called, nerrs |-> 1]
          ELSE [state |-> rest.state, nerrs |-> rest.nerrs]

\* snapback.go: createBackups, the loop over the chosen backups: one Create
\* call each, named base + tag; a failure is counted and the name is
\* reported like the others.
RECURSIVE createEach(_, _, _, _, _)
createEach(s, bs, ts, fail, dry) ==
  IF bs = <<>> THEN [state |-> s, nerrs |-> 0]
  ELSE LET base == Head(bs).Name
           name == <<base, tagAt(ts)>>
           failed == createFails(s, base, ts, fail)
           stored ==
             IF failed \/ dry THEN s
             ELSE [s EXCEPT !.archives =
                     insertArchive(@, Archive(base, tagAt(ts), ts))]
           called ==
             [stored EXCEPT
                !.report.Attempts = Append(@, [Name |-> name, Failed |-> failed]),
                !.report.Created = Append(@, name)]
           rest == createEach(called, Tail(bs), ts, fail, dry)
       IN [state |-> rest.state,
           nerrs |-> rest.nerrs + (IF failed THEN 1 ELSE 0)]

\* snapback.go: createBackups in state s; err: it returns an error.
createBackups(c, s, names, fail, in) ==
  LET picked == chooseBackups(c, names)
      made == createEach(s, picked.backups, in.wall, fail, in.dry)
  IN IF picked.err THEN [state |-> [s EXCEPT !.report.Err = TRUE], err |-> TRUE]
     ELSE [state |-> [made.state EXCEPT !.report.Err = made.nerrs > 0],
           err |-> made.nerrs > 0]

\* snapback.go: main without a command flag or with -c names: it creates
\* the backups, lists the archives to repair the list cache, ends the run
\* on an error unless -json is given, and prunes when ShouldAutoPrune says
\* so, at the effective now t.
Create(names, t, fail, json, in) ==
  /\ pc = "idle"
  /\ Len(archives) < MaxArchives
  /\ LET begun == [Here EXCEPT !.report = Command("create", names, in)]
         made == createBackups(config, begun, names, fail, in)
         s == List(config, made.state, in)
         due == ShouldAutoPrune(config, s.sentinel, in)
         asked == [s EXCEPT
                     !.sentinel = ShouldAutoPruneFile(config, @, in),
                     !.report.Asked = TRUE,
                     !.report.Stamp = s.sentinel,
                     !.report.Due = due]
         r == IF made.err /\ ~json THEN [s EXCEPT !.pc = "fatal"]
              ELSE IF due
                THEN pruneArchives(config, asked, listed(s), t,
                                   Range(names), in)
              ELSE [asked EXCEPT !.pc = "created"]
     IN Heeded(in, r) /\ Becomes(r)
  /\ Clock(in)
  /\ dryRun' = in.dry
  /\ UNCHANGED doc

\* tarsnap.Archives.LatestAsOf: the last archive of the set created at or
\* before t; NoArchive without one.
NoArchive == [nil |-> TRUE]
LatestAsOf(as, set, t) ==
  LET ok == {k \in DOMAIN as : as[k].Base = set /\ as[k].Created <= t}
  IN IF ok = {} THEN NoArchive
     ELSE as[CHOOSE k \in ok : \A j \in ok : j <= k]

\* snapback.go: main, which makes the directory of the configuration file
\* the working directory of a Config that names none.
ConfigDir == <<"/", "w">>
inConfigDir(c) ==
  IF c.WorkDir = <<>> THEN [c EXCEPT !.WorkDir = ConfigDir] ELSE c

\* A variant of restorePlan that looks for the "/" and the glob in the
\* absolute path, which filepath.Abs has cleaned.
restorePlanOfAbs(c, cwd, paths) ==
  LET bs(k) == FindPath(c, Abs(cwd, paths[k]))
      name(k) == bs(k)[1].Backup.Name
      rel(k) == TrimPrefix(bs(k)[1].Relative, <<"/">>)
      isSlow(k) == LET abs == Abs(cwd, paths[k])
                   IN HasSuffix(abs, <<"/">>) \/ isGlob(abs)
      ok == \A k \in DOMAIN paths : Len(bs(k)) = 1
  IN IF ~ok THEN [ok |-> FALSE, named |-> {}, need |-> <<>>, slow |-> {}]
     ELSE LET ns == {name(k) : k \in DOMAIN paths} IN
          [ok |-> TRUE, named |-> ns,
           need |-> [n \in ns |->
                       {rel(k) : k \in {j \in DOMAIN paths : name(j) = n}}],
           slow |-> {name(k) : k \in {j \in DOMAIN paths : isSlow(j)}}]

\* snapback.go: restoreFiles, the loop over the paths: ok, whether FindPath
\* has found one backup for every path (the loop ends the run at the first
\* path without); named, the keys of need; need, the paths wanted of each
\* set, as the set that stringset.New makes of them; slow, the sets that
\* need a slow read.
restorePlan(c, cwd, paths) ==
  LET bs(k) == FindPath(c, Abs(cwd, paths[k]))
      name(k) == bs(k)[1].Backup.Name
      rel(k) == TrimPrefix(bs(k)[1].Relative, <<"/">>)
      isSlow(k) == HasSuffix(paths[k], <<"/">>) \/ isGlob(paths[k])
      ok == \A k \in DOMAIN paths : Len(bs(k)) = 1
  IN IF ~ok THEN [ok |-> FALSE, named |-> {}, need |-> <<>>, slow |-> {}]
     ELSE LET ns == {name(k) : k \in DOMAIN paths} IN
          [ok |-> TRUE, named |-> ns,
           need |-> [n \in ns |->
                       {rel(k) : k \in {j \in DOMAIN paths : name(j) = n}}],
           slow |-> {name(k) : k \in {j \in DOMAIN paths : isSlow(j)}}]

\* snapback.go: restoreFiles, the loop over the sets to restore, in the
\* order the map iteration yields them.
RECURSIVE restoreEach(_, _, _, _, _, _)
restoreEach(s, as, order, plan, t, dry) ==
  IF order = <<>> THEN [s EXCEPT !.pc = "restored"]
  ELSE LET set == Head(order)
           arch == LatestAsOf(as, set, t)
           opts == [Name |-> arch.Name, Set |-> set,
                    Include |-> plan.need[set],
                    FastRead |-> set \notin plan.slow]
       IN IF arch = NoArchive THEN [s EXCEPT !.pc = "fatal"]
          ELSE restoreEach(IF dry THEN s
                           ELSE [s EXCEPT !.extracted = @ \cup {arch.Name},
                                          !.report.Extracts = Append(@, opts)],
                           as, Tail(order), plan, t, dry)

\* The orders in which a map with these keys is iterated.
mapOrders(keys) ==
  {o \in UNION {[1..n -> keys] : n \in {Cardinality(keys)}} :
     \A i, j \in DOMAIN o : o[i] = o[j] => i = j}

\* snapback.go: main for -restore with the paths given, run in the
\* directory cwd at the effective now t; order is the order in which the
\* map of the sets is iterated.
Restore(cwd, paths, order, t, in) ==
  /\ pc = "idle"
  /\ LET c == inConfigDir(config)
         begun == [Here EXCEPT
                     !.now = t,
                     !.report = [Command("restore", paths, in)
                                   EXCEPT !.Cwd = cwd]]
         plan == restorePlan(c, cwd, paths)
         s == List(config, begun, in)
         r == IF paths = <<>> \/ ~plan.ok THEN [begun EXCEPT !.pc = "fatal"]
              ELSE IF listFailed(s) THEN [s EXCEPT !.pc = "fatal"]
              ELSE restoreEach(s, listed(s), order, plan, t, in.dry)
     IN /\ order \in mapOrders(plan.named)
        /\ Heeded(in, r)
        /\ Becomes(r)
  /\ Clock(in)
  /\ dryRun' = in.dry
  /\ UNCHANGED doc

\* The universe: two backup sets, alpha keeping its latest archive only;
\* with and without a list cache; without auto-prune, with one that is
\* always due and with one that is due a minute after the last prune.
Minute == 60 * timeSecond
Walls == {m * Minute : m \in 0..MaxMinute}

CacheDocs ==
  {Document(<<Including(BackupDoc("alpha", "",
                                   <<Rule(0, 0, 1, NilSample)>>), <<"a">>),
              Including(BackupDoc("beta", "", <<>>), <<"b">>)>>,
            <<>>, <<>>, cache, auto) :
     cache \in {"", "cache"},
     auto \in {NoAutoPrune} \cup
              {[Timestamp |-> "stamp", Interval |-> i] : i \in {0, 60}}}

CacheArchives ==
  {Archive("alpha", goodTag(m), m * Minute) : m \in 0..1}

\* A cache file of another run, which lists the archives in another order
\* than the archiver.
OldCacheFile ==
  LET a0 == Archive("alpha", goodTag(0), 0)
      a1 == Archive("alpha", goodTag(1), Minute)
  IN ListCache(CacheTag(<<a0, a1>>), <<a1, a0>>)

CacheInputs ==
  {Input(dry, wall, delErr, saveErr) :
     dry \in BOOLEAN, wall \in Walls, delErr \in BOOLEAN, saveErr \in BOOLEAN}

CreateArgs ==
  {<<>>, <<"alpha">>, <<"beta", "alpha">>, <<"gamma">>, <<"alpha", "alpha">>}
RestoreArgs == {<<<<"a">>>>, <<<<"b">>>>, <<<<"a">>, <<"b">>>>}

InitCache ==
  /\ doc \in CacheDocs
  /\ config = Parse(doc)
  /\ archives = <<>>
  /\ cacheFile \in IF config.ListCache = "" THEN {NoFile}
                   ELSE {NoFile, OldCacheFile}
  /\ sentinel = NoFile
  /\ pc = "idle"
  /\ Fresh

NextCache ==
  \/ \E a \in CacheArchives : Arrive(a)
  \/ \E in \in CacheInputs, args \in SUBSET {"alpha"} :
       Prune(in.wall, args, in)
  \/ \E in \in CacheInputs, names \in CreateArgs, fail \in SUBSET {"alpha"},
        json \in BOOLEAN :
       Create(names, in.wall, fail, json, in)
  \/ \E in \in CacheInputs, paths \in RestoreArgs,
        order \in mapOrders({"alpha", "beta"}) \cup {<<"alpha">>, <<"beta">>} :
       Restore(ConfigDir, paths, order, in.wall, in)
  \/ Exit

SpecCache == InitCache /\ [][NextCache]_vars

\* ------------------------------------------------------------------------
\* The list cache with its failures: the same universe, with a cache file
\* that cannot be decoded and an archiver whose List fails.
ListInputs ==
  {Failing(Input(dry, wall, FALSE, saveErr), FALSE, listErr) :
     dry \in BOOLEAN, wall \in Walls, saveErr \in BOOLEAN,
     listErr \in BOOLEAN}

InitList ==
  /\ doc \in CacheDocs
  /\ config = Parse(doc)
  /\ archives = <<>>
  /\ cacheFile \in IF config.ListCache = "" THEN {NoFile}
                   ELSE {NoFile, OldCacheFile, BadFile}
  /\ sentinel = NoFile
  /\ pc = "idle"
  /\ Fresh

NextList ==
  \/ \E a \in CacheArchives : Arrive(a)
  \/ \E in \in ListInputs : Prune(in.wall, {}, in)
  \/ \E in \in ListInputs : Create(<<>>, in.wall, {}, FALSE, in)
  \/ Exit

SpecList == InitList /\ [][NextList]_vars

\* ------------------------------------------------------------------------
\* Prune cycles by set: two backup sets that each keep their latest
\* archive only, pruned by name and after a create.
SetsDocs ==
  {Document(<<BackupDoc("alpha", "", <<Rule(0, 0, 1, NilSample)>>),
              BackupDoc("beta", "", <<Rule(0, 0, 1, NilSample)>>)>>,
            <<>>, <<>>, "", auto) :
     auto \in {NoAutoPrune, [Timestamp |-> "stamp", Interval |-> 0]}}

SetsInputs ==
  {Input(dry, wall, delErr, FALSE) :
     dry \in BOOLEAN, wall \in Walls \ {0}, delErr \in BOOLEAN}

NextSets ==
  \/ \E b \in {"alpha", "beta"}, m \in 0..1 :
       Arrive(Archive(b, goodTag(m), m * Minute))
  \/ \E in \in SetsInputs, args \in SUBSET {"alpha", "beta", "gamma"} :
       Prune(in.wall, args, in)
  \/ \E in \in SetsInputs, names \in {<<>>, <<"alpha">>} :
       Create(names, in.wall, {}, FALSE, in)
  \/ Exit

SpecSets == InitWith(SetsDocs) /\ [][NextSets]_vars

\* ------------------------------------------------------------------------
\* Shared policies: two backup sets that add rules of their own to the
\* default list or to one named policy.
ShareDocs ==
  {Document(<<BackupDoc("alpha", p, e), BackupDoc("beta", q, f)>>,
            <<Rule(0, 0, 1, NilSample)>>, NamedPolicies, "", NoAutoPrune) :
     p, q \in {"", "default", "named"}, e, f \in ExplicitLists}

NextShare ==
  \/ \E b \in {"alpha", "beta"} :
       Arrive(Archive(b, goodTag(1), timeSecond))
  \/ \E t \in {timeSecond, 3 * timeSecond}, in \in PlainInputs :
       Prune(t, {}, in)
  \/ Exit

SpecShare == InitWith(ShareDocs) /\ [][NextShare]_vars

\* ------------------------------------------------------------------------
\* The auto-prune sentinel at the resolution of the clock: one backup set
\* that keeps its latest archive, auto-prune off or due every 0, 1 or 2
\* seconds, archives of other clients of the account, and runs of create
\* and of -prune at any tick, with and without a sentinel that can be
\* opened.
StampDocs ==
  {Document(<<BackupDoc("alpha", "", <<Rule(0, 0, 1, NilSample)>>)>>,
            <<>>, <<>>, "", auto) :
     auto \in {NoAutoPrune} \cup
              {[Timestamp |-> "stamp", Interval |-> i] : i \in 0..2}}

StampArchives == {Archive("alpha", goodTag(m), 0) : m \in 1..2}

StampInputs ==
  {Failing(Input(dry, wall, delErr, FALSE), ensureErr, FALSE) :
     dry \in BOOLEAN, wall \in 0..MaxTick, delErr \in BOOLEAN,
     ensureErr \in BOOLEAN}

InitStamp == InitWith(StampDocs)

NextStamp ==
  \/ \E a \in StampArchives : Arrive(a)
  \/ \E in \in StampInputs : Create(<<>>, in.wall, {}, FALSE, in)
  \/ \E in \in StampInputs : Prune(in.wall, {}, in)
  \/ Exit

SpecStamp == InitStamp /\ [][NextStamp]_vars

\* ------------------------------------------------------------------------
\* The paths of a backup set.  config_test.go: the Config of TestFindPath,
\* which the test builds without Parse, and the paths it looks for; with it,
\* the same Config with alpha created in the default directory, and with
\* charlie without glob-includes.
dirDiabolo == <<"/", "d", "i", "a", "b", "o", "l", "o">>
dirRooty == <<"/", "h", "o", "m", "e", "/", "r", "o", "o", "t", "y">>
marksSpot == <<"?", "/", "m", "a", "r", "k", "s", "/", "*", "/", "s", "p", "o", "t">>

TestConfig(alphaDir, globs) ==
  [Document(
     <<[BackupDoc("alpha", "", <<>>) EXCEPT
          !.WorkDir = alphaDir,
          !.Include = <<<<"b", "a", "r", "/", "b", "a", "z">>,
                        <<"f", "r", "o", "b", ".", "c", "c">>,
                        marksSpot>>,
          !.Exclude = <<<<"b", "a", "r", "/", "b", "a", "z", "/", "n", "u", "u", "t", "/", "*", "*">>>>],
       [BackupDoc("bravo", "", <<>>) EXCEPT
          !.Include = <<<<"f", "o", "o", "/", "q", "u", "u", "x">>,
                        <<"b", "a", "r", "/", "b", "a", "z", "/", "f", "r", "o", "b">>,
                        <<"b", "a", "r", "/", "b", "a", "z", "/", "n", "u", "u", "t">>>>,
          !.Exclude = <<<<"f", "o", "o", "/", "q", "u", "u", "x", "/", "z", "o", "r", "t", "/", "e", "m", ".", "h">>>>],
       [BackupDoc("charlie", "", <<>>) EXCEPT
          !.GlobIncludes = globs,
          !.Include = <<marksSpot>>]>>,
     <<>>, <<>>, "", NoAutoPrune)
   EXCEPT !.WorkDir = dirDiabolo]

PathConfigs == {TestConfig(d, g) : d \in {dirRooty, <<>>}, g \in BOOLEAN}

\* The paths of the test, relative and in the two directories, with a
\* directory written with its "/".
TestPaths ==
  LET rel ==
        {<<"n", "o", "n", "e", "s", "u", "c", "h">>,
         <<"f", "r", "o", "b", ".", "c", "c">>,
         <<"f", "o", "o", "/", "q", "u", "u", "x", "/", "a", "p", "p", "l", "e", ".", "p", "y">>,
         <<"f", "o", "o", "/", "q", "u", "u", "x", "/", "z", "o", "r", "t", "/", "e", "m", ".", "h">>,
         <<"b", "a", "r", "/", "b", "a", "z", "/", "n", "u", "u", "t", "/", "t", "e", "s", "t", ".", "h">>,
         <<"b", "a", "r", "/", "b", "a", "z", "/", "f", "r", "o", "b", "/", "n", "u", "t", ".", "p", "y">>,
         <<"f", "o", "o", "/", "q", "u", "u", "x", "/", "m", "e", "e", "p", "l", "e">>,
         <<"b", "a", "r", "/", "b", "a", "z", "/">>,
         marksSpot,
         <<"x", "/", "m", "a", "r", "k", "s", "/", "t", "h", "e", "/", "s", "p", "o", "t">>}
  IN rel \cup {d \o <<"/">> \o p : d \in {dirDiabolo, dirRooty}, p \in rel}

\* config_test.go: the body of the loop of TestFindPath, FindPath for one
\* path and the names of the backups it returns.
Find(path) ==
  /\ pc = "idle"
  /\ pc' = "found"
  /\ report' =
       [Command("find", <<path>>, Input(FALSE, 0, FALSE, FALSE)) EXCEPT
          !.Found = LET bs == FindPath(config, path)
                    IN [k \in DOMAIN bs |-> bs[k].Backup.Name]]
  /\ UNCHANGED <<doc, config, archives, cacheFile, sentinel, now, chosen,
                 match, dryRun, deleted, extracted, cachedList, lists>>

\* The non-flag arguments of a -restore: one or two paths.
RestorePaths ==
  LET ps == {<<"f", "r", "o", "b", ".", "c", "c">>,
             <<"f", "o", "o", "/", "q", "u", "u", "x", "/", "a", "p", "p", "l", "e", ".", "p", "y">>,
             <<"b", "a", "r", "/", "b", "a", "z", "/", "f", "r", "o", "b", "/", "n", "u", "t", ".", "p", "y">>,
             <<"b", "a", "r", "/", "b", "a", "z", "/">>,
             <<"n", "o", "n", "e", "s", "u", "c", "h">>,
             marksSpot}
  IN {<<>>} \cup {<<p>> : p \in ps} \cup {<<p, q>> : p, q \in ps}

InitPath ==
  /\ config \in PathConfigs
  /\ doc = config
  /\ archives = <<>>
  /\ cacheFile = NoFile
  /\ sentinel = NoFile
  /\ pc = "idle"
  /\ Fresh

NextPath ==
  \/ \E a \in {Archive("alpha", goodTag(0), 0),
               Archive("alpha", goodTag(1), Minute),
               Archive("bravo", goodTag(1), Minute)} : Arrive(a)
  \/ \E path \in TestPaths : Find(path)
  \/ \E in \in {Input(dry, wall, FALSE, FALSE) :
                   dry \in BOOLEAN, wall \in Walls},
        cwd \in {dirDiabolo, dirRooty},
        paths \in RestorePaths,
        order \in UNION {mapOrders(ns) : ns \in SUBSET {"alpha", "bravo"}} :
       Restore(cwd, paths, order, in.wall, in)
  \/ Exit

SpecPath == InitPath /\ [][NextPath]_vars

\* ------------------------------------------------------------------------
\* What a finished prune shows of FindExpired's work: for backup i, its
\* resolved rules, its owned archives and the batch of each rule.
expOf(i) == findPolicy(config, config.Backup[i])
setOf(i) == sets(chosen, config.Backup[i].Name)
batchOf(i, r) == rulesBatch(expOf(i), setOf(i), now, r)
Dropped == Range(match)
NamesOf(as) == {as[k].Name : k \in DOMAIN as}

\* The window [Min, Max] of a rule contains age.
contains(rule, age) == rule.Min <= age /\ age <= rule.Max

\* C1: for every backup and every owned archive, the rule that governs the
\* archive is a least one under Less among all rules of the backup's
\* resolved list whose window contains the archive's age.
C1_GoverningRuleIsLeast ==
  pc = "pruned" =>
    \A i \in DOMAIN config.Backup :
      \A k \in DOMAIN setOf(i) :
        LET exp == expOf(i)
            age == ageOf(now, setOf(i)[k])
            g == firstRule(exp, age)
        IN /\ (g = 0) <=> ~\E j \in DOMAIN exp : contains(exp[j], age)
           /\ g # 0 =>
                /\ contains(exp[g], age)
                /\ \A j \in DOMAIN exp :
                     contains(exp[j], age) => ~Less(exp[j], exp[g])

\* C2: in the README example an archive of age 7 days is governed by
\* Rule 2, the rule after 4 days until 8 days.
C2_ReadmeRule2Governs ==
  pc = "pruned" =>
    \A i \in DOMAIN config.Backup :
      \A k \in DOMAIN setOf(i) :
        LET age == ageOf(now, setOf(i)[k])
            g == firstRule(expOf(i), age)
        IN age = 7 * Day =>
             /\ g # 0
             /\ expOf(i)[g].Min = 4 * Day
             /\ expOf(i)[g].Max = 8 * Day

\* The archives of a batch outside the suffix that Latest protects.
unprotected(rule, batch) ==
  IF rule.Latest >= Len(batch) THEN <<>>
  ELSE SubSeq(batch, 1, Len(batch) - rule.Latest)

periodic(rule) ==
  /\ ~rule.Sample.nil
  /\ rule.Sample.N >= 1
  /\ rule.Sample.Period > 0
  /\ rule.Sample.Period \div rule.Sample.N > 0

\* The epoch-anchored bucket of an archive for a periodic rule.
bucket(rule, a) ==
  (a.Created \div timeSecond) \div (rule.Sample.Period \div rule.Sample.N)

\* C3: a periodic rule retains, outside the suffix that Latest protects,
\* exactly the most recent archive of each epoch-anchored bucket and drops
\* every other archive of the bucket.
C3_OnePerBucket ==
  pc = "pruned" =>
    \A i \in DOMAIN config.Backup :
      \A r \in DOMAIN expOf(i) :
        LET rule == expOf(i)[r]
            B == unprotected(rule, batchOf(i, r))
        IN periodic(rule) =>
             \A k \in DOMAIN B :
               (B[k] \notin Dropped) <=>
                 (\A j \in DOMAIN B :
                    j > k => bucket(rule, B[j]) # bucket(rule, B[k]))

\* C4: for every rule and batch, raising Latest from L to L2 > L never adds
\* an archive to the set that apply drops.
C4_LatestMonotone ==
  pc = "pruned" =>
    \A i \in DOMAIN config.Backup :
      \A r \in DOMAIN expOf(i) :
        LET rule == expOf(i)[r]
            batch == batchOf(i, r)
        IN \A l2 \in (rule.Latest + 1)..(MaxLatest + 1) :
             Range(apply([rule EXCEPT !.Latest = l2], batch))
               \subseteq (Range(batch) \cap Dropped)

\* The most recently created of the chosen archives, when it was created
\* after all the others, and the chosen archives before it arrived.
hasNewer ==
  /\ chosen # <<>>
  /\ \A k \in DOMAIN Front(chosen) : chosen[k].Created < Last(chosen).Created
newer == Last(chosen)
older == Front(chosen)

\* C5, as claimed: if FindExpired drops x with newer present at now, it drops
\* x without newer at every now2 not later than the creation of newer.
C5_StableForEveryNow ==
  (pc = "pruned" /\ hasNewer) =>
    \A x \in Dropped \ {newer} :
      \A t \in Nows :
        t <= newer.Created => x \in Range(FindExpired(config, older, t))

\* The number of archives that follow x in the batch of its rule, among
\* the archives as.
followers(as, x) ==
  LET i == CHOOSE j \in DOMAIN config.Backup : config.Backup[j].Name = x.Base
      exp == expOf(i)
      r == firstRule(exp, ageOf(now, x))
      batch == rulesBatch(exp, sets(as, x.Base), now, r)
      k == CHOOSE j \in DOMAIN batch : batch[j] = x
  IN Len(batch) - k

latestOf(x) ==
  LET i == CHOOSE j \in DOMAIN config.Backup : config.Backup[j].Name = x.Base
  IN expOf(i)[firstRule(expOf(i), ageOf(now, x))].Latest

\* C5, amended: with the same now, if FindExpired drops x with newer present
\* and x is not among the Latest + 1 most recent archives that its rule
\* governs without newer, then FindExpired drops x without newer as well.
C5_StableForSameNow ==
  (pc = "pruned" /\ hasNewer) =>
    \A x \in Dropped \ {newer} :
      followers(older, x) > latestOf(x) =>
        x \in Range(FindExpired(config, older, now))

C5_Witness ==
  /\ pc = "pruned"
  /\ hasNewer
  /\ \E x \in Dropped \ {newer} :
       /\ followers(older, x) > latestOf(x)
       /\ followers(chosen, x) > followers(older, x)
       /\ LET i == CHOOSE j \in DOMAIN config.Backup :
                     config.Backup[j].Name = x.Base
          IN periodic(expOf(i)[firstRule(expOf(i), ageOf(now, x))])

\* The chosen archives without the expired ones.
remaining == SelectSeq(chosen, LAMBDA a : a.Name \notin NamesOf(match))

\* C6: after the expired archives of a prune are deleted, FindExpired with
\* the same now proposes nothing.
C6_PruneIdempotent ==
  pc = "pruned" => FindExpired(config, remaining, now) = <<>>

C6_Witness ==
  /\ pc = "pruned"
  /\ ~dryRun
  /\ match # <<>>
  /\ deleted = NamesOf(match)
  /\ archives # <<>>
  /\ archives = remaining

\* The orders in which the chosen archives can be handed to FindExpired.
Orders(as) ==
  {[k \in DOMAIN as |-> as[f[k]]] :
     f \in {g \in [DOMAIN as -> DOMAIN as] :
              \A x, y \in DOMAIN as : g[x] = g[y] => x = y}}

\* C7: the set of names that FindExpired returns is the same for every
\* order of its input list.
C7_OrderIndependent ==
  pc = "pruned" =>
    \A p \in Orders(chosen) :
      NamesOf(FindExpired(config, p, now)) = NamesOf(match)

\* C8: the Latest most recent archives that a rule governs are never
\* returned by FindExpired, whatever the rule's sampling; a rule that
\* governs at most Latest archives drops none of them.
C8_LatestProtected ==
  pc = "pruned" =>
    \A i \in DOMAIN config.Backup :
      \A r \in DOMAIN expOf(i) :
        LET rule == expOf(i)[r]
            batch == batchOf(i, r)
        IN rule.Latest >= 1 =>
             \A k \in DOMAIN batch :
               k > Len(batch) - rule.Latest => batch[k] \notin Dropped

C8_Witness ==
  /\ pc = "pruned"
  /\ \E i \in DOMAIN config.Backup :
       \E r \in DOMAIN expOf(i) :
         /\ expOf(i)[r].Latest >= 1
         /\ periodic(expOf(i)[r])
         /\ Len(batchOf(i, r)) > expOf(i)[r].Latest
         /\ Range(batchOf(i, r)) \cap Dropped # {}

\* C9: when a batch has more than Latest archives, a rule without sampling
\* or with sampling none drops exactly the batch without its Latest most
\* recent archives, and a rule with sampling all drops nothing.
C9_NoneAndAll ==
  pc = "pruned" =>
    \A i \in DOMAIN config.Backup :
      \A r \in DOMAIN expOf(i) :
        LET rule == expOf(i)[r]
            batch == batchOf(i, r)
            B == SubSeq(batch, 1, Len(batch) - rule.Latest)
        IN Len(batch) > rule.Latest =>
             /\ (rule.Sample.nil \/ rule.Sample.N = 0) =>
                  /\ apply(rule, batch) = B
                  /\ Range(batch) \cap Dropped = Range(B)
             /\ (~rule.Sample.nil /\ rule.Sample.N >= 1
                   /\ rule.Sample.Period = 0) =>
                  /\ apply(rule, batch) = <<>>
                  /\ Range(batch) \cap Dropped = {}

C9_Witness ==
  /\ pc = "pruned"
  /\ \E i \in DOMAIN config.Backup :
       \E r, q \in DOMAIN expOf(i) :
         /\ expOf(i)[r].Sample = SampleAll
         /\ Len(batchOf(i, r)) > expOf(i)[r].Latest
         /\ expOf(i)[q].Sample.nil
         /\ Len(batchOf(i, q)) > expOf(i)[q].Latest
         /\ Range(batchOf(i, q)) \subseteq Dropped

\* An archive that no configured backup set owns.
unowned(a) == ~parseTag(a.Tag) \/ a.Base \notin BackupNames(config)

\* C10: an archive whose tag does not parse, or whose base is not the name
\* of a configured backup set, is never returned by FindExpired.
C10_UnownedRetained ==
  pc = "pruned" =>
    \A k \in DOMAIN chosen : unowned(chosen[k]) => chosen[k] \notin Dropped

C10_Witness ==
  /\ pc = "pruned"
  /\ match # <<>>
  /\ \E k \in DOMAIN chosen : ~parseTag(chosen[k].Tag)
  /\ \E k \in DOMAIN chosen :
       parseTag(chosen[k].Tag) /\ chosen[k].Base \notin BackupNames(config)

\* C11: an archive that FindExpired returns was not created after now, and
\* the resolved rules of its backup are not empty and have a rule whose
\* window contains the whole seconds from its creation until now.
C11_DroppedOnlyInWindow ==
  pc = "pruned" =>
    \A x \in Dropped :
      /\ x.Created <= now
      /\ \E i \in DOMAIN config.Backup :
           /\ config.Backup[i].Name = x.Base
           /\ expOf(i) # <<>>
           /\ \E r \in DOMAIN expOf(i) :
                contains(expOf(i)[r], (now - x.Created) \div timeSecond)

listsOf(c) ==
  {c.Expiration}
    \cup {c.Backup[i].Expiration : i \in DOMAIN c.Backup}
    \cup {c.Policy[n] : n \in DOMAIN c.Policy}
rulesOf(c) == UNION {Range(l) : l \in listsOf(c)}

width(p) == p.Max - p.Min
rightUnbounded(p) == p.Max = 0 \/ p.Max = forever

namesValid(d) ==
  /\ \A i \in DOMAIN d.Backup : d.Backup[i].Name # ""
  /\ \A i, j \in DOMAIN d.Backup :
       d.Backup[i].Name = d.Backup[j].Name => i = j

\* A backup of the document names a policy that is neither empty, "default"
\* or "none" nor a key of the map of named policies.
undefinedPolicy(d) ==
  \E i \in DOMAIN d.Backup :
    d.Backup[i].Policy \notin {"", "default", "none"} \cup DOMAIN d.Policy

\* C14: Parse rejects a document with a backup whose policy is undefined,
\* returning no config, and accepts a document with valid backup names
\* whose policies are empty, "default", "none" or keys of the map, whether
\* or not "default" and "none" are keys.
C14_ReservedPolicyNamesAccepted ==
  pc # "start" =>
    /\ undefinedPolicy(doc) => (config = NoConfig /\ pc = "fatal")
    /\ (~undefinedPolicy(doc) /\ namesValid(doc)) => config # NoConfig

\* The names that FindSet is asked for.
SetNames == {"", "alpha", "Alpha", "ALPHA", "beta"}

\* C15: Parse returns no config for a document with an empty or a repeated
\* backup name; in a config that Parse returned the backup names are not
\* empty and differ pairwise, and FindSet returns for a name the one backup
\* with exactly that name, or nil when there is none.
C15_NamesUnique ==
  pc # "start" =>
    /\ ~namesValid(doc) => (config = NoConfig /\ pc = "fatal")
    /\ config # NoConfig =>
         /\ namesValid(config)
         /\ \A name \in SetNames :
              LET b == FindSet(config, name)
              IN IF name \in BackupNames(config)
                 THEN /\ b # NoBackup
                      /\ b.Name = name
                      /\ \A i \in DOMAIN config.Backup :
                           config.Backup[i].Name = name => config.Backup[i] = b
                 ELSE b = NoBackup

C15_Witness ==
  /\ pc = "idle"
  /\ {"alpha", "Alpha"} \subseteq BackupNames(config)
  /\ FindSet(config, "Alpha").Name = "Alpha"
  /\ FindSet(config, "ALPHA") = NoBackup

\* C16: in a config that Parse returned, no rule of the default list, of a
\* named policy or of a backup's list has Max = 0, and in none of these
\* lists is a later rule Less than an earlier one.
C16_ListsNormalisedAndSorted ==
  (pc # "start" /\ config # NoConfig) =>
    \A l \in listsOf(config) :
      /\ \A k \in DOMAIN l : l[k].Max # 0
      /\ \A i, j \in DOMAIN l : i < j => ~Less(l[j], l[i])

C16_Witness ==
  /\ pc = "idle"
  /\ \E i \in DOMAIN doc.Backup :
       /\ \E k \in DOMAIN doc.Backup[i].Expiration :
            doc.Backup[i].Expiration[k].Max = 0
       /\ config.Backup[i].Expiration[1].Min # doc.Backup[i].Expiration[1].Min
  /\ \E n \in DOMAIN doc.Policy :
       /\ doc.Policy[n] # <<>>
       /\ config.Policy[n][1].Min # doc.Policy[n][1].Min
  /\ \E k \in DOMAIN doc.Expiration : doc.Expiration[k].Max = 0

\* C17: for a config that Parse accepted, no prune ends in a run-time panic
\* of findPolicy, apply or FindExpired.
C17_EngineTotal ==
  pc # "panic"

\* C18: within one run, on one Config, two List() calls at which the
\* archiver's cache tag is the same return the same list of archives.
C18_SameTagSameList ==
  \A j, k \in DOMAIN lists :
    lists[j].Tag = lists[k].Tag => lists[j].Archives = lists[k].Archives

\* A run has listed twice at one tag: first from a cache file that holds
\* the archives in another order, then from memory.
C18_Witness ==
  /\ Len(lists) = 2
  /\ lists[1].Tag = lists[2].Tag
  /\ lists[1].Path = "disk"
  /\ lists[2].Path = "memory"
  /\ cacheFile.Archives # lists[1].Archives

\* as is nondecreasing by (Created, Name).
nondecreasing(as) ==
  \A i, j \in DOMAIN as : i < j => ~archLess(as[j], as[i])

\* C19: every list that List() returns is nondecreasing by (Created, Name),
\* whichever path it took: no cache configured, a hit in memory, a hit in
\* the cache file, a fetch from the archiver.
C19_ListSorted ==
  \A k \in DOMAIN lists :
    /\ lists[k].Path \in {"direct", "memory", "disk", "fetch", "error"}
    /\ nondecreasing(lists[k].Archives)

\* A list of two archives came from a cache file that is not nondecreasing.
C19_Witness ==
  \E k \in DOMAIN lists :
    /\ lists[k].Path = "disk"
    /\ Len(lists[k].Archives) > 1
    /\ cacheFile # NoFile
    /\ ~nondecreasing(cacheFile.Archives)

\* C20: a run with -dry-run, of create, prune, auto-prune or restore, issues
\* no Delete and no Extract, stores and removes no archive, and leaves the
\* list cache file and the auto-prune sentinel as they were.
C20_DryRunChangesNothing ==
  [][dryRun' =>
       /\ deleted' = {}
       /\ extracted' = {}
       /\ archives' = archives
       /\ cacheFile' = cacheFile
       /\ sentinel' = sentinel]_vars

\* The create cycle of this run: the backup sets the command line chose,
\* the tag of the cycle, and the attempts made for one set.
chosenSets ==
  IF report.Args = <<>> THEN BackupNames(config)
  ELSE Range(report.Args) \cap BackupNames(config)
cycleTag == tagAt(report.In.wall)
attemptsOf(set) ==
  {i \in DOMAIN report.Attempts : report.Attempts[i].Name[1] = set}
someCreateFailed == \E i \in DOMAIN report.Attempts : report.Attempts[i].Failed

cycleAttempts ==
  /\ \A set \in chosenSets : Cardinality(attemptsOf(set)) = 1
  /\ \A i \in DOMAIN report.Attempts :
       /\ report.Attempts[i].Name[1] \in chosenSets
       /\ report.Attempts[i].Name[2] = cycleTag
  /\ report.Created =
       [i \in DOMAIN report.Attempts |-> report.Attempts[i].Name]

\* C21, as claimed: in a create cycle every chosen set gets exactly one
\* Create attempt named set + tag, every attempted name is reported, and
\* the cycle returns an error exactly when some Create failed.
C21_ErrorIffCreateFailed ==
  report.Cmd = "create" =>
    /\ cycleAttempts
    /\ report.Err <=> someCreateFailed

\* chooseBackups accepts the command line: every name is a configured set
\* and none is given twice.
choiceValid ==
  /\ Range(report.Args) \subseteq BackupNames(config)
  /\ \A i, j \in DOMAIN report.Args : report.Args[i] = report.Args[j] => i = j

\* C21, amended: when every name given is a configured set and none is
\* given twice, every chosen set gets exactly one Create attempt named
\* set + tag, whether or not an earlier Create failed, every attempted name
\* is reported, and the cycle returns an error exactly when some Create
\* failed; otherwise no Create is attempted, no name is reported and the
\* cycle returns an error.
C21_CreateCycle ==
  report.Cmd = "create" =>
    IF choiceValid
    THEN cycleAttempts /\ (report.Err <=> someCreateFailed)
    ELSE report.Attempts = <<>> /\ report.Created = <<>> /\ report.Err

\* A cycle of two sets in which the Create of the first set failed and the
\* Create of the second did not.
C21_Witness ==
  /\ report.Cmd = "create"
  /\ Len(report.Attempts) = 2
  /\ report.Attempts[1].Failed
  /\ ~report.Attempts[2].Failed
  /\ report.Err

\* The position of a backup set in the configuration file.
position(set) == CHOOSE i \in DOMAIN config.Backup : config.Backup[i].Name = set

\* C22: the Create calls of a cycle are issued in the order of the sets in
\* the configuration file, with and without names on the command line.
C22_CreateInFileOrder ==
  report.Cmd = "create" =>
    \A i, j \in DOMAIN report.Attempts :
      i < j => position(report.Attempts[i].Name[1])
                 < position(report.Attempts[j].Name[1])

\* The ShouldAutoPrune call of this run can open the sentinel.
sentinelEnsured == config.AutoPrune.Timestamp # "" /\ ~report.In.ensureErr

\* C23: the answer of ShouldAutoPrune is false without a timestamp path
\* and when the sentinel cannot be opened.  Otherwise it is true with
\* Interval 0; false when the call creates the sentinel and Interval > 0;
\* and with a sentinel last modified at T (by UpdatePruneTimestamp or by
\* its creation) it is true exactly from T + Interval seconds on.
C23_AutoPruneDue ==
  report.Asked =>
    LET w == report.In.wall
        i == config.AutoPrune.Interval
    IN /\ ~sentinelEnsured => ~report.Due
       /\ sentinelEnsured /\ i = 0 => report.Due
       /\ sentinelEnsured /\ i > 0 /\ report.Stamp = NoFile => ~report.Due
       /\ sentinelEnsured /\ report.Stamp # NoFile =>
            (report.Due <=> w >= report.Stamp.ModTime + i * timeSecond)

\* With Interval 1, a sentinel last modified at tick 1 is found due one
\* second later.
C23_Witness ==
  /\ report.Asked
  /\ sentinelEnsured
  /\ config.AutoPrune.Interval = 1
  /\ report.Stamp # NoFile
  /\ report.Stamp.ModTime = 1
  /\ report.In.wall = 1 + timeSecond
  /\ report.Due

\* The path lies in what backup b includes: it is an Include entry or lies
\* under one, or b has glob-includes and an Include entry matches it as a
\* glob; and no Exclude pattern matches it.
included(b, rel) ==
  /\ \A k \in DOMAIN b.Exclude : ~pathMatchesPattern(rel, b.Exclude[k])
  /\ \E k \in DOMAIN b.Include :
       \/ rel = b.Include[k]
       \/ HasPrefix(rel, b.Include[k] \o <<"/">>)
       \/ b.GlobIncludes /\ pathMatchesPattern(rel, b.Include[k])

\* The names of the backups from the i-th on that include the path made
\* relative to their directory.
RECURSIVE includingFrom(_, _, _)
includingFrom(c, path, i) ==
  IF i > Len(c.Backup) THEN <<>>
  ELSE LET b == c.Backup[i] IN
       (IF included(b, needleOf(b, c.WorkDir, path)) THEN <<b.Name>>
        ELSE <<>>) \o includingFrom(c, path, i + 1)

\* C24: FindPath returns, in the order of the configuration, exactly the
\* backups that include the path made relative to the directory of the
\* backup, an Include entry of a backup with glob-includes matching as a
\* glob too: of x/marks/the/spot, FindPath returns charlie, whose Include
\* is ?/marks/*/spot.
C24_FindPathHonoursGlobIncludes ==
  report.Cmd = "find" =>
    report.Found = includingFrom(config, report.Args[1], 1)

\* The backups that FindPath returns for the k-th path of a restore.
foundFor(k) ==
  FindPath(inConfigDir(config), Abs(report.Cwd, report.Args[k]))

containsGlob(p) == \E i \in DOMAIN p : p[i] \in {"[", "*", "?"}

\* The sets that need a slow read: those with a path that ends in "/" or
\* contains a glob.
slowSets ==
  {foundFor(k)[1].Backup.Name :
     k \in {j \in DOMAIN report.Args :
              Last(report.Args[j]) = "/" \/ containsGlob(report.Args[j])}}

\* The archive is the most recent of its set at the effective now.
mostRecent(name, set) ==
  \E i \in DOMAIN archives :
    /\ archives[i].Name = name
    /\ archives[i].Base = set
    /\ archives[i].Created <= now
    /\ \A j \in DOMAIN archives :
         archives[j].Base = set /\ archives[j].Created <= now
           => archives[j].Created <= archives[i].Created

\* C25: a restore with a path that FindPath resolves to no backup set or to
\* more than one ends before it lists the archives and before any Extract;
\* otherwise it calls Extract at most once for every set, on the most
\* recent archive of the set at the effective now, with FastRead off
\* exactly for the sets with a path that ends in "/" or contains a glob.
C25_RestoreResolvesEveryPath ==
  report.Cmd = "restore" =>
    IF \E k \in DOMAIN report.Args : Len(foundFor(k)) # 1
    THEN /\ pc = "fatal"
         /\ lists = <<>>
         /\ report.Extracts = <<>>
         /\ extracted = {}
    ELSE LET xs == report.Extracts IN
         /\ \A i, j \in DOMAIN xs : xs[i].Set = xs[j].Set => i = j
         /\ \A i \in DOMAIN xs :
              /\ \E k \in DOMAIN report.Args :
                   foundFor(k)[1].Backup.Name = xs[i].Set
              /\ mostRecent(xs[i].Name, xs[i].Set)
              /\ xs[i].FastRead = (xs[i].Set \notin slowSets)

\* A restore of a directory of alpha and a file of bravo has extracted from
\* the latest archive of each, with a slow read of alpha only.
C25_Witness ==
  /\ report.Cmd = "restore"
  /\ pc = "restored"
  /\ Len(archives) = 3
  /\ \E i, j \in DOMAIN report.Extracts :
       /\ report.Extracts[i].Set = "alpha" /\ ~report.Extracts[i].FastRead
       /\ report.Extracts[j].Set = "bravo" /\ report.Extracts[j].FastRead

\* At the List() call with entry e: the in-memory cache carries the tag that
\* CacheTag returned; the cache file can be decoded and carries it; the
\* archiver was asked for its list.
inMemory(e) == e.Memory # NoCache /\ e.Memory.Tag = e.Tag
onDisk(e) == e.File \notin {NoFile, BadFile} /\ e.File.Tag = e.Tag
askedArchiver(e) == e.Path \in {"direct", "fetch", "error"}

C27_ListFailsOnlyWithArchiver ==
  \A k \in DOMAIN lists :
    LET e == lists[k] IN
    /\ e.Path = "error" => report.In.listErr
    /\ config.ListCache # "" /\ e.File \in {NoFile, BadFile} /\ ~inMemory(e)
         => e.Path \in {"fetch", "error"}
    /\ e.Path = "fetch" /\ report.In.saveErr
         => /\ e.Saved = e.File
            /\ e.Installed = ListCache(e.Tag, e.Archives)
            /\ CacheTag(e.Archives) = e.Tag
            /\ Cardinality(e.Tag) = Len(e.Archives)

\* The cache file could not be decoded and could not be written: the list
\* of two archives came from the archiver.
C27_Witness ==
  \E k \in DOMAIN lists :
    /\ lists[k].File = BadFile
    /\ lists[k].Path = "fetch"
    /\ report.In.saveErr
    /\ cacheFile = BadFile
    /\ Len(lists[k].Archives) = 2
    /\ cachedList = ListCache(lists[k].Tag, lists[k].Archives)

\* The set names that the command line gives a prune cycle.
cycleArgs ==
  IF report.Cmd = "prune" THEN report.Args ELSE Range(report.Args)

\* The archives that a prune cycle chooses from those main has listed.
chosenOf(as) ==
  IF cycleArgs = {} THEN as
  ELSE SelectSeq(as, LAMBDA a : a.Base \in cycleArgs)

\* C28: a prune cycle calls Delete at most once, with the names of the
\* archives that FindExpired returns for the chosen archives: all that were
\* listed when no set is named, else those of the sets named; it calls no
\* Delete when there are none; and a -prune that names a set not in the
\* configuration ends before archives are listed or deleted.
C28_OneDeletePerCycle ==
  report.Cmd \in {"prune", "create"} =>
    /\ Len(report.Deletes) <= 1
    /\ \A k \in DOMAIN report.Deletes :
         /\ lists # <<>>
         /\ LET expired ==
                  FindExpired(config, chosenOf(lists[1].Archives), now)
            IN report.Deletes[k] = {expired[i].Name : i \in DOMAIN expired}
         /\ report.Deletes[k] # {}
         /\ cycleArgs # {} =>
              \A n \in report.Deletes[k] : n[1] \in cycleArgs
    /\ deleted # {} => report.Deletes = <<deleted>>
    /\ report.Cmd = "prune" /\ ~(report.Args \subseteq BackupNames(config))
         => pc = "fatal" /\ lists = <<>> /\ report.Deletes = <<>>

\* A -prune of alpha has deleted archives of alpha and left an archive of
\* beta that a prune of every set would have deleted.
C28_Witness ==
  /\ report.Cmd = "prune"
  /\ report.Args = {"alpha"}
  /\ Len(report.Deletes) = 1
  /\ LET all == FindExpired(config, lists[1].Archives, now)
     IN \E i \in DOMAIN all :
          all[i].Base = "beta" /\ all[i].Name \notin report.Deletes[1]

\* The sentinel as the prune cycle of the step finds it: after a create
\* that has called ShouldAutoPrune, as that has left it.
sentinelAtCycle ==
  IF report'.Cmd = "create" /\ report'.Asked
  THEN ShouldAutoPruneFile(config, sentinel, report'.In)
  ELSE sentinel

\* C29: a prune cycle changes the modification time of the sentinel only
\* when it is not a dry run, FindExpired has returned an archive and Delete
\* has succeeded; and after an auto-prune that found nothing to prune,
\* ShouldAutoPrune is true again at any later time.
C29_StampOnlyAfterDelete ==
  [][/\ sentinel' # sentinelAtCycle =>
          /\ ~dryRun'
          /\ match' # <<>>
          /\ deleted' = {match'[i].Name : i \in DOMAIN match'}
          /\ pc' = "pruned"
     /\ report'.Cmd = "create" /\ report'.Due /\ pc' = "pruned"
          /\ match' = <<>>
          => \A wall \in report'.In.wall..MaxTick :
               ShouldAutoPrune(config, sentinel',
                               Input(FALSE, wall, FALSE, FALSE))]_vars

\* With Interval 1 or 2, an auto-prune was due at a sentinel written by an
\* earlier run, found nothing to prune and left the sentinel as it was.
C29_Witness ==
  /\ report.Cmd = "create"
  /\ report.Due
  /\ pc = "pruned"
  /\ match = <<>>
  /\ config.AutoPrune.Interval > 0
  /\ sentinel # NoFile
  /\ sentinel = report.Stamp
  /\ sentinel.ModTime < report.In.wall

====
